---- MODULE Spec2Model ----
(***************************************************************************)
(* BizGenius business-plan generator: the Plan Section Parser              *)
(* (BusinessPlanGenerator.parseBusinessPlanSections), its normalization    *)
(* helpers and the flat-text export.                                       *)
(*                                                                         *)
(* A JavaScript string is modelled as a sequence of one-character strings, *)
(* so that every regular-expression replacement of the source is computed  *)
(* character by character.                                                 *)
(***************************************************************************)
EXTENDS Integers, Sequences, FiniteSets, TLC

VARIABLES
    content,         \* the argument of parseBusinessPlanSections
    pc,              \* position inside parseBusinessPlanSections
    cleanContent,    \* const cleanContent
    lines,           \* const lines = cleanContent.split('\n')
    idx,             \* index (1-based) of the next line of the for-of loop
    currentSection,  \* let currentSection
    currentContent,  \* let currentContent
    sections,        \* const sections
    input,           \* the BusinessPlanInput of generateBusinessPlan
    businessPlan,    \* the GeneratedBusinessPlan built from the parsed sections
    pass,            \* 1: parsing generated text, 2: parsing an exported plan
    messages,        \* the messages of the request body of generateBusinessPlan
    apiKey,          \* private apiKey of the shared BusinessPlanGenerator
    model,           \* private model of the shared BusinessPlanGenerator
    plans,           \* the state of the BusinessPlan page, by its useState names
    showGenerator,
    showPlanView,
    showEditMode,
    showModifyMode,
    editedPlan,
    modificationRequest,
    isGenerating,
    isModifying,
    error,
    formData,
    clock,           \* what Date.now() returned last; it never goes back
    genCall,         \* the generateBusinessPlan call that awaits the endpoint
    modCall,         \* the modifyBusinessPlan call that awaits the endpoint
    parseLog,        \* the latest call of parseBusinessPlanSections, if any
    requests,        \* how many requests were sent to the endpoint so far
    user,            \* the state of the AuthProvider, by its useState names
    session,
    isLoading,
    authError,       \* error of the AuthProvider
    stored,          \* the session the Supabase client holds
    events,          \* the auth state changes the client has yet to deliver
    initCall,        \* initializeAuth, login and logout: where each call is
    loginCall,
    logoutCall

\* The argument and the local variables of parseBusinessPlanSections
parserVars == <<content, pc, cleanContent, lines, idx, currentSection,
                currentContent, sections>>

\* The fields of the generator instance
instanceVars == <<apiKey, model>>

\* The state of the BusinessPlan page
pageVars == <<plans, showGenerator, showPlanView, showEditMode, showModifyMode,
              editedPlan, modificationRequest, isGenerating, isModifying, error,
              formData>>

\* The state of the edit screen
editVars == <<showEditMode, editedPlan>>

\* The calls in flight, the clock and the log of the parser's calls
callVars == <<clock, genCall, modCall, parseLog, requests>>

\* The state of the AuthProvider, the Supabase client and the provider's calls
authVars == <<user, session, isLoading, authError, stored, events, initCall,
              loginCall, logoutCall>>

\* What the stepwise run of parseBusinessPlanSections neither reads nor writes
outsideParser == <<messages, instanceVars, pageVars, callVars, authVars>>

\* What the handlers of the page neither read nor write
outsidePage == <<parserVars, input, businessPlan, pass, messages, authVars>>

\* What the AuthProvider neither reads nor writes
outsideAuth == <<parserVars, input, businessPlan, pass, messages, instanceVars,
                 pageVars, callVars>>

vars == <<content, pc, cleanContent, lines, idx, currentSection,
          currentContent, sections, input, businessPlan, pass, messages,
          apiKey, model, plans, showGenerator, showPlanView, showEditMode,
          showModifyMode, editedPlan, modificationRequest, isGenerating,
          isModifying, error, formData,
          clock, genCall, modCall, parseLog, requests, user, session, isLoading,
          authError, stored, events, initCall, loginCall, logoutCall>>

(***************************************************************************)
(* Bounds of the model                                                     *)
(***************************************************************************)
\* The most lines of a generated text drawn line by line
MaxLines == 3
\* The most header-and-body blocks of a generated text drawn block by block
MaxBlocks == 3
\* The most lines of a generated text that carries markdown decoration
MaxMarkupLines == 3
\* The most lines of a generated text that is exported and parsed again
MaxPlanLines == 4
\* The clock values Date.now() returns
MaxClock == 2
\* The most asterisks on each side of a title wrapped in emphasis markers
MaxStars == 3
\* The most requests the page sends to the endpoint
MaxRequests == 2
\* The most tokens a session goes through: its first and those of its refreshes
MaxTokens == 2
\* The most auth state changes the client has yet to deliver
MaxEvents == 2

(***************************************************************************)
(* Characters                                                              *)
(***************************************************************************)
\* The bullet character U+2022 of the source, as one character.
Bullet == "@bullet"

\* The characters of the model's texts that the regular expression class \s
\* and String.prototype.trim treat as white space.
WhiteSpace == {" ", "\n", "\t", "\r"}

Digits == {"0", "1", "2", "3", "4", "5", "6", "7", "8", "9"}

LowerOf ==
    ("A" :> "a") @@ ("B" :> "b") @@ ("C" :> "c") @@ ("D" :> "d") @@
    ("E" :> "e") @@ ("F" :> "f") @@ ("G" :> "g") @@ ("H" :> "h") @@
    ("I" :> "i") @@ ("J" :> "j") @@ ("K" :> "k") @@ ("L" :> "l") @@
    ("M" :> "m") @@ ("N" :> "n") @@ ("O" :> "o") @@ ("P" :> "p") @@
    ("Q" :> "q") @@ ("R" :> "r") @@ ("S" :> "s") @@ ("T" :> "t") @@
    ("U" :> "u") @@ ("V" :> "v") @@ ("W" :> "w") @@ ("X" :> "x") @@
    ("Y" :> "y") @@ ("Z" :> "z")

\* String.prototype.toLowerCase
ToLowerCase(s) ==
    [k \in 1..Len(s) |-> IF s[k] \in DOMAIN LowerOf THEN LowerOf[s[k]] ELSE s[k]]

\* s[i], or the empty string past either end of s
At(s, i) == IF i \in 1..Len(s) THEN s[i] ELSE ""

\* String.prototype.trim
Trim(s) ==
    LET keep == {k \in 1..Len(s) : s[k] \notin WhiteSpace}
    IN  IF keep = {} THEN <<>>
        ELSE SubSeq(s, CHOOSE a \in keep : \A k \in keep : a <= k,
                       CHOOSE b \in keep : \A k \in keep : b >= k)

\* String.prototype.includes
Includes(s, sub) ==
    \E k \in 0..(Len(s) - Len(sub)) : SubSeq(s, k + 1, k + Len(sub)) = sub

\* String.prototype.split('\n')
RECURSIVE Split(_)
Split(s) ==
    LET nl == {k \in 1..Len(s) : s[k] = "\n"}
    IN  IF nl = {} THEN <<s>>
        ELSE LET f == CHOOSE a \in nl : \A k \in nl : a <= k
             IN  <<SubSeq(s, 1, f - 1)>> \o Split(SubSeq(s, f + 1, Len(s)))

\* '-'.repeat(n), '='.repeat(n)
Repeat(c, n) == [k \in 1..n |-> c]

(***************************************************************************)
(* The regular-expression replacements of the clean-up                     *)
(***************************************************************************)
\* String.prototype.replace with a regular expression under the g flag:
\* len[j] is the length of the expression's match that starts at s[j] (0 for
\* none); the matches are taken leftmost first, each search resuming just
\* past the previous match, and every match is replaced by r.
RECURSIVE ReplaceFrom(_, _, _, _)
ReplaceFrom(s, i, len, r) ==
    LET hits == {j \in i..Len(s) : len[j] > 0}
    IN  IF hits = {} THEN SubSeq(s, i, Len(s))
        ELSE LET j == CHOOSE a \in hits : \A k \in hits : a <= k
             IN  SubSeq(s, i, j - 1) \o r \o ReplaceFrom(s, j + len[j], len, r)

ReplaceAll(s, len, r) == ReplaceFrom(s, 1, len, r)

\* The match of \*\* that starts at s[i]
BoldAt(s, i) == IF s[i] = "*" /\ At(s, i + 1) = "*" THEN 2 ELSE 0

\* .replace(/\*\*/g, '')
RemoveBold(s) == ReplaceAll(s, [j \in 1..Len(s) |-> BoldAt(s, j)], <<>>)

\* The match of \* that starts at s[i]
AsteriskAt(s, i) == IF s[i] = "*" THEN 1 ELSE 0

\* .replace(/\*/g, '')
RemoveAsterisks(s) == ReplaceAll(s, [j \in 1..Len(s) |-> AsteriskAt(s, j)], <<>>)

MaxHashes == 6

\* The (greedy) match of #{1,6}\s that starts at s[i]
HeaderMarkerAt(s, i) ==
    LET ok == {n \in 1..MaxHashes :
                 /\ \A k \in i..(i + n - 1) : At(s, k) = "#"
                 /\ At(s, i + n) \in WhiteSpace}
    IN  IF ok = {} THEN 0
        ELSE (CHOOSE n \in ok : \A m \in ok : n >= m) + 1

\* .replace(/#{1,6}\s/g, '')
RemoveMarkdownHeaders(s) ==
    ReplaceAll(s, [j \in 1..Len(s) |-> HeaderMarkerAt(s, j)], <<>>)

\* ^ under the m flag: the start of the text or just after a line break
LineStart(s, i) == i = 1 \/ At(s, i - 1) \in {"\n", "\r"}

\* The index of the first character at or after s[i] that is not white space
SkipSpace(s, i) ==
    LET stop == {j \in i..Len(s) : s[j] \notin WhiteSpace}
    IN  IF stop = {} THEN Len(s) + 1
        ELSE CHOOSE a \in stop : \A k \in stop : a <= k

\* The match of ^\s*[-•]\s that starts at s[i]
BulletAt(s, i) ==
    IF LineStart(s, i)
    THEN LET j == SkipSpace(s, i)
         IN  IF At(s, j) \in {"-", Bullet} /\ At(s, j + 1) \in WhiteSpace
             THEN j + 2 - i
             ELSE 0
    ELSE 0

\* .replace(/^\s*[-•]\s/gm, '• ')
NormalizeBullets(s) ==
    ReplaceAll(s, [j \in 1..Len(s) |-> BulletAt(s, j)], <<Bullet, " ">>)

\* The index just past the run of line breaks that starts at s[i]
SkipNewlines(s, i) ==
    LET stop == {j \in i..Len(s) : s[j] # "\n"}
    IN  IF stop = {} THEN Len(s) + 1
        ELSE CHOOSE a \in stop : \A k \in stop : a <= k

MinBreakRun == 3

\* The (greedy) match of \n{3,} that starts at s[i]
BreakRunAt(s, i) ==
    IF s[i] = "\n" /\ At(s, i + 1) = "\n"
    THEN LET n == SkipNewlines(s, i) - i
         IN  IF n >= MinBreakRun THEN n ELSE 0
    ELSE 0

\* .replace(/\n{3,}/g, '\n\n')
NormalizeLineBreaks(s) ==
    ReplaceAll(s, [j \in 1..Len(s) |-> BreakRunAt(s, j)], <<"\n", "\n">>)

\* The (greedy) match of ^\s+ that starts at s[i]
IndentAt(s, i) ==
    IF LineStart(s, i) /\ s[i] \in WhiteSpace THEN SkipSpace(s, i) - i ELSE 0

\* .replace(/^\s+/gm, '')
RemoveLeadingWhitespace(s) ==
    ReplaceAll(s, [j \in 1..Len(s) |-> IndentAt(s, j)], <<>>)

\* Mutant: the clean-up leaves the markdown header markers in place
CleanUpKeepingHeaderMarkers(s) ==
    Trim(NormalizeLineBreaks(NormalizeBullets(RemoveAsterisks(RemoveBold(s)))))

\* The whole-input clean-up at the head of parseBusinessPlanSections
CleanUp(s) ==
    Trim(NormalizeLineBreaks(NormalizeBullets(RemoveMarkdownHeaders(
        RemoveAsterisks(RemoveBold(s))))))

\* formatSectionContent
formatSectionContent(s) ==
    Trim(RemoveLeadingWhitespace(NormalizeLineBreaks(NormalizeBullets(
        RemoveAsterisks(RemoveBold(s))))))

(***************************************************************************)
(* Header recognition                                                      *)
(***************************************************************************)
sectionHeaders == <<
    <<"E","x","e","c","u","t","i","v","e"," ","S","u","m","m","a","r","y">>,
    <<"C","o","m","p","a","n","y"," ","D","e","s","c","r","i","p","t","i","o","n">>,
    <<"M","a","r","k","e","t"," ","A","n","a","l","y","s","i","s">>,
    <<"O","r","g","a","n","i","z","a","t","i","o","n"," ","&"," ","M","a","n","a","g","e","m","e","n","t">>,
    <<"P","r","o","d","u","c","t","s"," ","o","r"," ","S","e","r","v","i","c","e","s">>,
    <<"M","a","r","k","e","t","i","n","g"," ","&"," ","S","a","l","e","s"," ","S","t","r","a","t","e","g","y">>,
    <<"F","i","n","a","n","c","i","a","l"," ","P","r","o","j","e","c","t","i","o","n","s">>,
    <<"R","i","s","k"," ","A","n","a","l","y","s","i","s">>,
    <<"I","m","p","l","e","m","e","n","t","a","t","i","o","n"," ","T","i","m","e","l","i","n","e">>,
    <<"A","p","p","e","n","d","i","c","e","s">> >>

\* header.toLowerCase(), for every header of the catalog
lowerHeaders == [k \in 1..Len(sectionHeaders) |-> ToLowerCase(sectionHeaders[k])]

\* The title of the fallback section
FallbackTitle == <<"B","u","s","i","n","e","s","s"," ","P","l","a","n">>

\* trimmedLine.match(/^\d+\./)
MatchesOrdinal(t) ==
    \E n \in 1..(Len(t) - 1) :
        /\ \A k \in 1..n : t[k] \in Digits
        /\ t[n + 1] = "."

\* Mutant: the comparison with the header keeps the case of the line
HeaderTestCaseSensitive(t, k) ==
    /\ Includes(ToLowerCase(t), lowerHeaders[k])
    /\ (MatchesOrdinal(t) \/ t = sectionHeaders[k])

\* Mutant: the line only has to contain the header
HeaderTestIncludesOnly(t, k) == Includes(ToLowerCase(t), lowerHeaders[k])

\* The predicate of sectionHeaders.find, for the k-th header
HeaderTest(t, k) ==
    /\ Includes(ToLowerCase(t), lowerHeaders[k])
    /\ (MatchesOrdinal(t) \/ ToLowerCase(t) = lowerHeaders[k])

\* Mutant: the matched line itself, not the catalog entry, becomes the title
MatchedHeaderKeepsLine(line) ==
    LET t    == Trim(line)
        hits == {k \in 1..Len(sectionHeaders) : HeaderTest(t, k)}
    IN  IF hits = {} THEN <<>> ELSE t

\* const matchedHeader = sectionHeaders.find(...): the first header of the
\* catalog that passes the test, the empty string (falsy, as undefined) if none
MatchedHeader(line) ==
    LET t    == Trim(line)
        hits == {k \in 1..Len(sectionHeaders) : HeaderTest(t, k)}
    IN  IF hits = {} THEN <<>>
        ELSE sectionHeaders[CHOOSE k \in hits : \A m \in hits : k <= m]

(***************************************************************************)
(* parseBusinessPlanSections, one action per step of its body              *)
(***************************************************************************)
Section(t, c) == [title |-> t, content |-> c]

\* Mutant: the accumulator is pushed even when no header opened it
PushCurrentNoTitleCheck(secs, cur, buf) ==
    IF Trim(buf) # <<>>
    THEN Append(secs, [title |-> cur, content |-> formatSectionContent(Trim(buf))])
    ELSE secs

\* Mutant: the accumulator is pushed even when it holds only white space
PushCurrentAlways(secs, cur, buf) ==
    IF cur # <<>>
    THEN Append(secs, [title |-> cur, content |-> formatSectionContent(Trim(buf))])
    ELSE secs

\* Mutant: the section is put in front of the sections (unshift for push)
PushCurrentPrepend(secs, cur, buf) ==
    IF cur # <<>> /\ Trim(buf) # <<>>
    THEN <<[title |-> cur, content |-> formatSectionContent(Trim(buf))]>> \o secs
    ELSE secs

\* Mutant: the accumulator is tested without being trimmed
PushCurrentUntrimmed(secs, cur, buf) ==
    IF cur # <<>> /\ buf # <<>>
    THEN Append(secs, [title |-> cur, content |-> formatSectionContent(Trim(buf))])
    ELSE secs

\* Mutant: text accumulated before any header is pushed under the first title
\* of the catalog
PushCurrentPreambleFirst(secs, cur, buf) ==
    IF Trim(buf) # <<>>
    THEN Append(secs, [title   |-> IF cur # <<>> THEN cur ELSE sectionHeaders[1],
                       content |-> formatSectionContent(Trim(buf))])
    ELSE secs

\* if (currentSection && currentContent.trim()) sections.push({...})
PushCurrent(secs, cur, buf) ==
    IF cur # <<>> /\ Trim(buf) # <<>>
    THEN Append(secs, Section(cur, formatSectionContent(Trim(buf))))
    ELSE secs

\* Mutant: the line is put in front of the accumulated lines
AppendLineInFront(buf, line) == line \o <<"\n">> \o buf

\* currentContent += line + '\n'
AppendLine(buf, line) == buf \o line \o <<"\n">>

\* Lines 166-194: the clean-up, the split and the initial accumulators
CleanStep ==
    /\ pc = "clean"
    /\ cleanContent' = CleanUp(content)
    /\ lines' = Split(CleanUp(content))
    /\ idx' = 1
    /\ currentSection' = <<>>
    /\ currentContent' = <<>>
    /\ sections' = <<>>
    /\ pc' = "loop"
    /\ UNCHANGED <<content, input, businessPlan, pass>>
    /\ UNCHANGED outsideParser

\* Lines 196-221: one iteration of the for-of loop
LineStep ==
    /\ pc = "loop"
    /\ idx <= Len(lines)
    /\ LET line          == lines[idx]
           matchedHeader == MatchedHeader(line)
       IN  IF matchedHeader # <<>>
           THEN /\ sections' = PushCurrent(sections, currentSection, currentContent)
                /\ currentSection' = matchedHeader
                /\ currentContent' = <<>>
           ELSE /\ currentContent' = AppendLine(currentContent, line)
                /\ UNCHANGED <<sections, currentSection>>
    /\ idx' = idx + 1
    /\ UNCHANGED <<content, pc, cleanContent, lines, input, businessPlan, pass>>
    /\ UNCHANGED outsideParser

\* Mutant: no fallback section
WithFallbackNever(secs, clean) == secs

\* if (sections.length === 0) sections.push({title: 'Business Plan', ...})
WithFallback(secs, clean) ==
    IF Len(secs) = 0
    THEN <<Section(FallbackTitle, formatSectionContent(clean))>>
    ELSE secs

\* The loop of parseBusinessPlanSections from line i of ls on, and the push
\* of the last section
RECURSIVE ParseLines(_, _, _, _, _)
ParseLines(ls, i, cur, buf, secs) ==
    IF i > Len(ls) THEN PushCurrent(secs, cur, buf)
    ELSE LET matchedHeader == MatchedHeader(ls[i])
         IN  IF matchedHeader # <<>>
             THEN ParseLines(ls, i + 1, matchedHeader, <<>>,
                             PushCurrent(secs, cur, buf))
             ELSE ParseLines(ls, i + 1, cur, AppendLine(buf, ls[i]), secs)

\* Mutant: the title of the fallback section depends on the model of the
\* instance
parseReadingModel(text) ==
    LET clean == CleanUp(text)
        secs  == ParseLines(Split(clean), 1, <<>>, <<>>, <<>>)
    IN  IF Len(secs) = 0 /\ model # "tngtech/deepseek-r1t2-chimera:free"
        THEN <<Section(<<"P","l","a","n">>, formatSectionContent(clean))>>
        ELSE WithFallback(secs, clean)

\* parseBusinessPlanSections, as the value it returns
parseBusinessPlanSections(text) ==
    LET clean == CleanUp(text)
    IN  WithFallback(ParseLines(Split(clean), 1, <<>>, <<>>, <<>>), clean)

\* Lines 223-239: the last section, the fallback section, the return
ReturnStep ==
    /\ pc = "loop"
    /\ idx > Len(lines)
    /\ sections' = WithFallback(
            PushCurrent(sections, currentSection, currentContent), cleanContent)
    /\ pc' = "done"
    /\ UNCHANGED <<content, cleanContent, lines, idx, currentSection,
                   currentContent, input, businessPlan, pass>>
    /\ UNCHANGED outsideParser

ParseStep == CleanStep \/ LineStep \/ ReturnStep

(***************************************************************************)
(* generateBusinessPlan (the part after the API call) and the export       *)
(***************************************************************************)
NoPlan == [id |-> 0]

BusinessPlanSuffix == <<" ","B","u","s","i","n","e","s","s"," ","P","l","a","n">>

DigitOf == <<"1", "2", "3", "4", "5", "6", "7", "8", "9">>

\* createdAt.toLocaleDateString() of the date read at clock value t
LocaleDateString(t) == <<"1", "/", DigitOf[t], "/", "2", "0", "2", "5">>

SeparatorWidth == 50

\* formatBusinessPlanForExport
RECURSIVE ExportSections(_)
ExportSections(secs) ==
    IF secs = <<>> THEN <<>>
    ELSE Head(secs).title \o <<"\n">>
         \o Repeat("-", Len(Head(secs).title)) \o <<"\n", "\n">>
         \o Head(secs).content \o <<"\n", "\n">>
         \o ExportSections(Tail(secs))

formatBusinessPlanForExport(plan) ==
    plan.title \o <<"\n">>
    \o <<"I","n","d","u","s","t","r","y",":"," ">> \o plan.industry \o <<"\n">>
    \o <<"C","r","e","a","t","e","d",":"," ">>
    \o LocaleDateString(plan.createdAt) \o <<"\n", "\n">>
    \o Repeat("=", SeparatorWidth) \o <<"\n", "\n">>
    \o ExportSections(plan.sections)

\* Lines 116-128 of generateBusinessPlan: the plan built around the parsed
\* sections once parseBusinessPlanSections has returned
GenerateStep ==
    /\ pc = "done"
    /\ pass = 1
    /\ businessPlan = NoPlan
    /\ \E now \in 1..MaxClock :
        businessPlan' = [id        |-> now,
                         title     |-> input.businessName \o BusinessPlanSuffix,
                         industry  |-> input.industry,
                         createdAt |-> now,
                         sections  |-> sections,
                         status    |-> "complete"]
    /\ UNCHANGED <<input, content, pc, cleanContent, lines, idx,
                   currentSection, currentContent, sections, pass>>
    /\ UNCHANGED outsideParser

\* The exported text of the plan handed back to parseBusinessPlanSections
ReparseStep ==
    /\ pc = "done"
    /\ pass = 1
    /\ businessPlan # NoPlan
    /\ content' = formatBusinessPlanForExport(businessPlan)
    /\ pc' = "clean"
    /\ pass' = 2
    /\ UNCHANGED <<input, cleanContent, lines, idx, currentSection,
                   currentContent, sections, businessPlan>>
    /\ UNCHANGED outsideParser

(***************************************************************************)
(* The request of generateBusinessPlan: systemPrompt and the prompt built  *)
(* by createBusinessPlanPrompt                                             *)
(***************************************************************************)
\* private systemPrompt
systemPrompt ==
    <<"Y","o","u"," ","a","r","e"," ","a","n"," ","e","x","p","e","r","t",
      " ","b","u","s","i","n","e","s","s"," ","p","l","a","n"," ","c","o",
      "n","s","u","l","t","a","n","t"," ","w","i","t","h"," ","2","0","+",
      " ","y","e","a","r","s"," ","o","f"," ","e","x","p","e","r","i","e",
      "n","c","e"," ","h","e","l","p","i","n","g"," ","e","n","t","r","e",
      "p","r","e","n","e","u","r","s"," ","a","n","d"," ","s","t","a","r",
      "t","u","p","s"," ","c","r","e","a","t","e"," ","p","r","o","f","e",
      "s","s","i","o","n","a","l",","," ","i","n","v","e","s","t","o","r",
      "-","r","e","a","d","y"," ","b","u","s","i","n","e","s","s"," ","p",
      "l","a","n","s","."," ","Y","o","u","r"," ","e","x","p","e","r","t",
      "i","s","e"," ","i","n","c","l","u","d","e","s",":","\n","\n","-"," ",
      "M","a","r","k","e","t"," ","a","n","a","l","y","s","i","s"," ","a",
      "n","d"," ","c","o","m","p","e","t","i","t","i","v","e"," ","r","e",
      "s","e","a","r","c","h","\n","-"," ","F","i","n","a","n","c","i","a",
      "l"," ","m","o","d","e","l","i","n","g"," ","a","n","d"," ","p","r",
      "o","j","e","c","t","i","o","n","s","\n","-"," ","S","t","r","a","t",
      "e","g","i","c"," ","p","l","a","n","n","i","n","g"," ","a","n","d",
      " ","g","r","o","w","t","h"," ","s","t","r","a","t","e","g","i","e",
      "s","\n","-"," ","R","i","s","k"," ","a","s","s","e","s","s","m","e",
      "n","t"," ","a","n","d"," ","m","i","t","i","g","a","t","i","o","n",
      "\n","-"," ","I","n","d","u","s","t","r","y","-","s","p","e","c","i",
      "f","i","c"," ","i","n","s","i","g","h","t","s"," ","a","n","d"," ",
      "t","r","e","n","d","s","\n","-"," ","I","n","v","e","s","t","o","r",
      " ","p","r","e","s","e","n","t","a","t","i","o","n"," ","a","n","d",
      " ","f","u","n","d","i","n","g"," ","s","t","r","a","t","e","g","i",
      "e","s","\n","\n","C","r","e","a","t","e"," ","c","o","m","p","r","e",
      "h","e","n","s","i","v","e",","," ","p","r","o","f","e","s","s","i",
      "o","n","a","l"," ","b","u","s","i","n","e","s","s"," ","p","l","a",
      "n","s"," ","t","h","a","t"," ","a","r","e",":","\n","-"," ","W","e",
      "l","l","-","s","t","r","u","c","t","u","r","e","d"," ","w","i","t",
      "h"," ","c","l","e","a","r"," ","s","e","c","t","i","o","n","s","\n",
      "-"," ","D","a","t","a","-","d","r","i","v","e","n"," ","w","i","t",
      "h"," ","r","e","a","l","i","s","t","i","c"," ","p","r","o","j","e",
      "c","t","i","o","n","s","\n","-"," ","T","a","i","l","o","r","e","d",
      " ","t","o"," ","t","h","e"," ","s","p","e","c","i","f","i","c"," ",
      "i","n","d","u","s","t","r","y"," ","a","n","d"," ","m","a","r","k",
      "e","t","\n","-"," ","I","n","v","e","s","t","o","r","-","r","e","a",
      "d","y"," ","w","i","t","h"," ","c","o","m","p","e","l","l","i","n",
      "g"," ","n","a","r","r","a","t","i","v","e","s","\n","-"," ","A","c",
      "t","i","o","n","a","b","l","e"," ","w","i","t","h"," ","c","l","e",
      "a","r"," ","i","m","p","l","e","m","e","n","t","a","t","i","o","n",
      " ","s","t","e","p","s","\n","\n","I","M","P","O","R","T","A","N","T",
      ":"," ","F","o","r","m","a","t"," ","y","o","u","r"," ","r","e","s",
      "p","o","n","s","e"," ","a","s"," ","c","l","e","a","n",","," ","r",
      "e","a","d","a","b","l","e"," ","t","e","x","t"," ","w","i","t","h",
      "o","u","t"," ","a","n","y"," ","m","a","r","k","d","o","w","n"," ",
      "f","o","r","m","a","t","t","i","n","g",","," ","a","s","t","e","r",
      "i","s","k","s",","," ","o","r"," ","s","p","e","c","i","a","l"," ",
      "c","h","a","r","a","c","t","e","r","s","."," ","U","s","e"," ","p",
      "l","a","i","n"," ","t","e","x","t"," ","w","i","t","h"," ","p","r",
      "o","p","e","r"," ","p","a","r","a","g","r","a","p","h","s"," ","a",
      "n","d"," ","l","i","n","e"," ","b","r","e","a","k","s","."," ","S",
      "t","r","u","c","t","u","r","e"," ","y","o","u","r"," ","r","e","s",
      "p","o","n","s","e"," ","w","i","t","h"," ","t","h","e"," ","f","o",
      "l","l","o","w","i","n","g"," ","s","e","c","t","i","o","n","s",":",
      "\n","1","."," ","E","x","e","c","u","t","i","v","e"," ","S","u","m",
      "m","a","r","y","\n","2","."," ","C","o","m","p","a","n","y"," ","D",
      "e","s","c","r","i","p","t","i","o","n","\n","3","."," ","M","a","r",
      "k","e","t"," ","A","n","a","l","y","s","i","s","\n","4","."," ","O",
      "r","g","a","n","i","z","a","t","i","o","n"," ","&"," ","M","a","n",
      "a","g","e","m","e","n","t","\n","5","."," ","P","r","o","d","u","c",
      "t","s"," ","o","r"," ","S","e","r","v","i","c","e","s","\n","6",".",
      " ","M","a","r","k","e","t","i","n","g"," ","&"," ","S","a","l","e",
      "s"," ","S","t","r","a","t","e","g","y","\n","7","."," ","F","i","n",
      "a","n","c","i","a","l"," ","P","r","o","j","e","c","t","i","o","n",
      "s","\n","8","."," ","R","i","s","k"," ","A","n","a","l","y","s","i",
      "s","\n","9","."," ","I","m","p","l","e","m","e","n","t","a","t","i",
      "o","n"," ","T","i","m","e","l","i","n","e","\n","1","0","."," ","A",
      "p","p","e","n","d","i","c","e","s","\n","\n","E","a","c","h"," ","s",
      "e","c","t","i","o","n"," ","s","h","o","u","l","d"," ","b","e"," ",
      "d","e","t","a","i","l","e","d",","," ","p","r","o","f","e","s","s",
      "i","o","n","a","l",","," ","a","n","d"," ","s","p","e","c","i","f",
      "i","c"," ","t","o"," ","t","h","e"," ","b","u","s","i","n","e","s",
      "s"," ","c","o","n","t","e","x","t"," ","p","r","o","v","i","d","e",
      "d","."," ","W","r","i","t","e"," ","i","n"," ","c","l","e","a","r",
      ","," ","p","r","o","f","e","s","s","i","o","n","a","l"," ","l","a",
      "n","g","u","a","g","e"," ","w","i","t","h","o","u","t"," ","a","n",
      "y"," ","f","o","r","m","a","t","t","i","n","g"," ","s","y","m","b",
      "o","l","s",","," ","a","s","t","e","r","i","s","k","s",","," ","o",
      "r"," ","m","a","r","k","d","o","w","n","."," ","U","s","e"," ","p",
      "r","o","p","e","r"," ","p","a","r","a","g","r","a","p","h","s"," ",
      "w","i","t","h"," ","l","i","n","e"," ","b","r","e","a","k","s"," ",
      "f","o","r"," ","r","e","a","d","a","b","i","l","i","t","y",".">>

\* The fields of a BusinessPlanInput, in the order of the interface
Fields == <<"businessName", "industry", "businessType", "location", "targetAudience", "uniqueValue", "revenueModel", "goals">>

\* The label that introduces each field in the prompt
FieldLabel ==
    [f \in {Fields[k] : k \in 1..Len(Fields)} |->
        CASE f = "businessName" -> <<"B","u","s","i","n","e","s","s"," ","N","a","m","e">>
          [] f = "industry" -> <<"I","n","d","u","s","t","r","y">>
          [] f = "businessType" -> <<"B","u","s","i","n","e","s","s"," ","T","y","p","e">>
          [] f = "location" -> <<"L","o","c","a","t","i","o","n">>
          [] f = "targetAudience" -> <<"T","a","r","g","e","t"," ","A","u","d","i","e","n","c","e">>
          [] f = "uniqueValue" -> <<"U","n","i","q","u","e"," ","V","a","l","u","e"," ","P","r","o","p","o",
  "s","i","t","i","o","n">>
          [] f = "revenueModel" -> <<"R","e","v","e","n","u","e"," ","M","o","d","e","l">>
          [] f = "goals" -> <<"G","o","a","l","s">>]

\* The head of the template literal of createBusinessPlanPrompt
PromptOpening ==
    <<"C","r","e","a","t","e"," ","a"," ","c","o","m","p","r","e","h","e",
      "n","s","i","v","e",","," ","p","r","o","f","e","s","s","i","o","n",
      "a","l"," ","b","u","s","i","n","e","s","s"," ","p","l","a","n"," ",
      "f","o","r"," ","t","h","e"," ","f","o","l","l","o","w","i","n","g",
      " ","b","u","s","i","n","e","s","s",":","\n","\n","*","*","B","u","s",
      "i","n","e","s","s"," ","D","e","t","a","i","l","s",":","*","*","\n">>

\* Mutant: a line of the business details without the field's value
DetailLineWithoutValue(label, value) ==
    <<"-", " ">> \o label \o <<":", " ">> \o <<"\n">>

\* A line of the business details: - Label: ${value}
DetailLine(label, value) ==
    <<"-", " ">> \o label \o <<":", " ">> \o value \o <<"\n">>

RECURSIVE BusinessDetailsFrom(_, _)
BusinessDetailsFrom(inp, k) ==
    IF k > Len(Fields) THEN <<>>
    ELSE DetailLine(FieldLabel[Fields[k]], inp[Fields[k]])
         \o BusinessDetailsFrom(inp, k + 1)

BusinessDetails(inp) == BusinessDetailsFrom(inp, 1)

\* The fixed text between the interpolations of the second half
PromptMarketResearch ==
    <<"\n","P","l","e","a","s","e"," ","c","r","e","a","t","e"," ","a"," ",
      "d","e","t","a","i","l","e","d",","," ","i","n","v","e","s","t","o",
      "r","-","r","e","a","d","y"," ","b","u","s","i","n","e","s","s"," ",
      "p","l","a","n"," ","t","h","a","t"," ","i","n","c","l","u","d","e",
      "s",":","\n","-"," ","M","a","r","k","e","t"," ","r","e","s","e","a",
      "r","c","h"," ","s","p","e","c","i","f","i","c"," ","t","o"," ">>

PromptIn == <<" ","i","n"," ">>

PromptMarketing ==
    <<"\n","-"," ","C","o","m","p","e","t","i","t","i","v","e"," ","a","n",
      "a","l","y","s","i","s"," ","a","n","d"," ","p","o","s","i","t","i",
      "o","n","i","n","g","\n","-"," ","R","e","a","l","i","s","t","i","c",
      " ","f","i","n","a","n","c","i","a","l"," ","p","r","o","j","e","c",
      "t","i","o","n","s"," ","f","o","r"," ","3","-","5"," ","y","e","a",
      "r","s","\n","-"," ","M","a","r","k","e","t","i","n","g"," ","s","t",
      "r","a","t","e","g","i","e","s"," ","t","a","i","l","o","r","e","d",
      " ","t","o"," ">>

PromptRoadmap ==
    <<"\n","-"," ","I","m","p","l","e","m","e","n","t","a","t","i","o","n",
      " ","r","o","a","d","m","a","p"," ","a","l","i","g","n","e","d"," ",
      "w","i","t","h"," ","t","h","e"," ","g","o","a","l",":"," ">>

PromptClosing ==
    <<"\n","-"," ","R","i","s","k"," ","a","s","s","e","s","s","m","e","n",
      "t"," ","a","n","d"," ","m","i","t","i","g","a","t","i","o","n"," ",
      "s","t","r","a","t","e","g","i","e","s","\n","-"," ","I","n","d","u",
      "s","t","r","y","-","s","p","e","c","i","f","i","c"," ","i","n","s",
      "i","g","h","t","s"," ","a","n","d"," ","t","r","e","n","d","s","\n",
      "\n","T","h","e"," ","p","l","a","n"," ","s","h","o","u","l","d"," ",
      "b","e"," ","p","r","o","f","e","s","s","i","o","n","a","l",","," ",
      "c","o","m","p","r","e","h","e","n","s","i","v","e",","," ","a","n",
      "d"," ","r","e","a","d","y"," ","f","o","r"," ","p","r","e","s","e",
      "n","t","a","t","i","o","n"," ","t","o"," ","i","n","v","e","s","t",
      "o","r","s",","," ","l","e","n","d","e","r","s",","," ","o","r"," ",
      "s","t","a","k","e","h","o","l","d","e","r","s","."," ","I","n","c",
      "l","u","d","e"," ","s","p","e","c","i","f","i","c"," ","d","a","t",
      "a",","," ","m","e","t","r","i","c","s",","," ","a","n","d"," ","a",
      "c","t","i","o","n","a","b","l","e"," ","s","t","r","a","t","e","g",
      "i","e","s"," ","w","h","e","r","e"," ","p","o","s","s","i","b","l",
      "e",".">>

\* createBusinessPlanPrompt
createBusinessPlanPrompt(inp) ==
    PromptOpening \o BusinessDetails(inp)
    \o PromptMarketResearch \o inp.industry \o PromptIn \o inp.location
    \o PromptMarketing \o inp.targetAudience
    \o PromptRoadmap \o inp.goals
    \o PromptClosing

Message(role, text) == [role |-> role, content |-> text]

\* Mutant: the request carries the user message only
RequestMessagesUserOnly(inp) ==
    <<Message("user", createBusinessPlanPrompt(inp))>>

\* messages: [{role: 'system', ...}, {role: 'user', content: prompt}]
RequestMessages(inp) ==
    <<Message("system", systemPrompt),
      Message("user", createBusinessPlanPrompt(inp))>>

\* Lines 77-88 of generateBusinessPlan: the prompt and the messages of the
\* request body
BuildRequest ==
    /\ messages = <<>>
    /\ messages' = RequestMessages(input)
    /\ UNCHANGED parserVars
    /\ UNCHANGED <<input, businessPlan, pass>>
    /\ UNCHANGED <<instanceVars, pageVars, callVars, authVars>>

(***************************************************************************)
(* Inputs                                                                  *)
(***************************************************************************)
Prose == <<"W","e"," ","s","e","l","l",".">>

\* lines.join('\n')
RECURSIVE Join(_)
Join(ls) ==
    IF ls = <<>> THEN <<>>
    ELSE IF Len(ls) = 1 THEN ls[1]
    ELSE ls[1] \o <<"\n">> \o Join(Tail(ls))

\* Every text of at most n lines, each line one of the templates
Texts(templates, n) ==
    UNION {{Join([k \in 1..m |-> templates[f[k]]]) :
               f \in [1..m -> 1..Len(templates)]} : m \in 0..n}

\* Lines that exercise header recognition: exact titles, titles in another
\* case and indented, numbered titles, titles mentioned in numbered and in
\* plain prose, a numbered line without a title, prose, a blank line, a bullet
HeaderLogicLines == <<
    sectionHeaders[1],
    <<" ", " ">> \o ToLowerCase(sectionHeaders[8]) \o <<" ">>,
    <<"1", ".", " ">> \o sectionHeaders[3],
    <<"1", "2", ".", " ", "s", "e", "e", " ">> \o sectionHeaders[10] \o <<" ", "x">>,
    <<"s", "e", "e", " ">> \o sectionHeaders[8],
    <<"3", ".", " ", "x">>,
    Prose,
    <<>>,
    <<"-", " ", "y">> >>

\* A header line followed by one body line
BlockHeaders == <<
    sectionHeaders[1],
    <<"2", ".", " ">> \o sectionHeaders[3],
    <<" ">> \o ToLowerCase(sectionHeaders[8]) >>

BlockBodies == << Prose, <<>> >>

Blocks ==
    [k \in 1..(Len(BlockHeaders) * Len(BlockBodies)) |->
        BlockHeaders[((k - 1) \div Len(BlockBodies)) + 1] \o <<"\n">>
        \o BlockBodies[((k - 1) % Len(BlockBodies)) + 1]]

\* Lines that carry markdown decoration
MarkupLines == <<
    sectionHeaders[1],
    <<"*", "*">> \o sectionHeaders[10] \o <<"*", "*">>,
    <<"#", "#", " ">> \o sectionHeaders[8],
    <<"#", "#", "#", "#", "#", "#", "#", " ", " ", "z">>,
    <<"C", "#">>,
    <<" ", "-">>,
    <<"-", " ", "*", "y", "*">>,
    <<" ", " ", "z">>,
    Prose,
    <<>> >>

\* The ordinal of the k-th section, as the model writes it in a numbered header
Ordinal(k) == IF k < Len(sectionHeaders) THEN <<DigitOf[k]>> ELSE <<"1", "0">>

\* The k-th catalog header as a standalone line: bare, numbered, or in lower
\* case and indented
HeaderStyles == {"bare", "numbered", "lower"}

HeaderLine(style, k) ==
    CASE style = "bare"     -> sectionHeaders[k]
      [] style = "numbered" -> Ordinal(k) \o <<".", " ">> \o sectionHeaders[k]
      [] style = "lower"    -> <<" ", " ">> \o lowerHeaders[k]

\* The prose under a header: a sentence, a sentence that ends with the name
\* of a programming language, two paragraphs the second of which is a list
ProseVariants == <<
    Prose,
    <<"B","u","i","l","t"," ","i","n"," ","C","#">>,
    Prose \o <<"\n", "\n", "-", " ", "y">> >>

\* What ends the prose under a header: a line break, or a line break and a
\* blank line
Separators == {<<"\n">>, <<"\n", "\n">>}

\* A text with the ten catalog headers once each, in catalog order, each a
\* line of its own with prose under it; the prose under header `special` is
\* the v-th variant
RECURSIVE CatalogTextFrom(_, _, _, _, _)
CatalogTextFrom(k, style, special, v, sep) ==
    IF k > Len(sectionHeaders) THEN <<>>
    ELSE HeaderLine(style, k) \o <<"\n">>
         \o (IF k = special THEN ProseVariants[v] ELSE Prose) \o sep
         \o CatalogTextFrom(k + 1, style, special, v, sep)

CatalogText(style, special, v, sep) == CatalogTextFrom(1, style, special, v, sep)

\* The lines of the generated texts whose plans are exported
PlanLines == <<
    sectionHeaders[1],
    <<"2", ".", " ">> \o sectionHeaders[3],
    Prose,
    <<"-", " ", "y">>,
    <<"C", "#">> >>

\* A catalog title with markdown decoration, as a line of its own: wrapped in
\* n asterisks on each side, prefixed by n header markers and a space, or both
DecorationKinds == {"emphasis", "marker", "both"}

DecorationLevels(kind) ==
    IF kind = "emphasis" THEN 1..MaxStars ELSE 1..MaxHashes

DecoratedHeader(kind, n, k) ==
    CASE kind = "emphasis" ->
            Repeat("*", n) \o sectionHeaders[k] \o Repeat("*", n)
      [] kind = "marker" ->
            Repeat("#", n) \o <<" ">> \o sectionHeaders[k]
      [] kind = "both" ->
            Repeat("#", n) \o <<" ", "*", "*">> \o sectionHeaders[k] \o <<"*", "*">>

\* The body text under a decorated header: a sentence, or a sentence and a
\* list item with an emphasised word
DecoratedBodies == <<
    Prose,
    Prose \o <<"\n", "-", " ", "*", "y", "*">> >>

\* What precedes a decorated header: nothing, or an introductory paragraph
Leads == << <<>>, <<"H","e","r","e"," ","i","t"," ","i","s",":","\n","\n">> >>

DecoratedText(lead, kind, n, k, body) ==
    Leads[lead] \o DecoratedHeader(kind, n, k) \o <<"\n">> \o DecoratedBodies[body]

Widgets == <<"W","e"," ","s","e","l","l"," ","w","i","d","g","e","t","s",".">>
Growing == <<"G","r","o","w","i","n","g"," ","m","a","r","k","e","t",".">>

\* Two numbered headers, each followed by a sentence, the first section ending
\* with a blank line and the text with a line break
NumberedText(k1, k2) ==
    <<"1", ".", " ">> \o sectionHeaders[k1] \o <<"\n">> \o Widgets \o <<"\n", "\n">>
    \o <<"2", ".", " ">> \o sectionHeaders[k2] \o <<"\n">> \o Growing \o <<"\n">>

Acme == <<"A", "c", "m", "e">>
Retail == <<"R", "e", "t", "a", "i", "l">>

\* A BusinessPlanInput; its other fields are not read after the API call
DefaultInput == [businessName |-> Acme, industry |-> Retail]

\* The texts a BusinessPlanInput is filled with: plain words, and texts with
\* markup, line breaks and the characters of the template itself
FieldTexts == <<
    [businessName   |-> Acme,
     industry       |-> Retail,
     businessType   |-> <<"S","t","a","r","t","u","p">>,
     location       |-> <<"O","s","l","o">>,
     targetAudience |-> <<"L","e","n","d","e","r","s">>,
     uniqueValue    |-> <<"F","a","s","t">>,
     revenueModel   |-> <<"F","e","e","s">>,
     goals          |-> <<"G","r","o","w">>],
    [businessName   |-> <<"*","*","A","*","*">>,
     industry       |-> <<"R","&","D">>,
     businessType   |-> <<"-"," ","G","o","a","l","s",":"," ","x">>,
     location       |-> <<"a","\n","b">>,
     targetAudience |-> <<"$","{","i","n","p","u","t","}">>,
     uniqueValue    |-> <<"#","1"," ","'","q","'">>,
     revenueModel   |-> <<" ">>,
     goals          |-> <<"9",".">>] >>

\* The BusinessPlanInput whose fields in filled hold the v-th texts, the
\* others being empty
Profile(filled, v) ==
    [f \in {Fields[k] : k \in 1..Len(Fields)} |->
        IF f \in filled THEN FieldTexts[v][f] ELSE <<>>]

(***************************************************************************)
(* The shared generator instance: its fields and the responses of the      *)
(* chat-completion endpoint                                                *)
(***************************************************************************)
\* null, as the value of a piece of React state that holds text
Null == <<"@null">>

\* private model
DefaultModel == "tngtech/deepseek-r1t2-chimera:free"

\* The models setModel is called with
Models == {DefaultModel, "openai/gpt-4o-mini"}

PlaceholderKey == "your_openrouter_api_key_here"

\* The values of VITE_OPENROUTER_API_KEY: the placeholder, a key
ApiKeys == {PlaceholderKey, "sk-or-v1-0"}

\* The negation of: !this.apiKey || this.apiKey === 'your_openrouter_api_key_here'
KeyConfigured(k) == ~(k = "" \/ k = PlaceholderKey)

KeyNotConfiguredMessage ==
    <<"O","p","e","n","R","o","u","t","e","r"," ","A","P","I"," ","k","e",
      "y"," ","n","o","t"," ","c","o","n","f","i","g","u","r","e","d",".",
      " ","P","l","e","a","s","e"," ","a","d","d"," ","y","o","u","r"," ",
      "A","P","I"," ","k","e","y"," ","t","o"," ","t","h","e"," ",".","e",
      "n","v"," ","f","i","l","e",".">>

InvalidKeyMessage ==
    <<"I","n","v","a","l","i","d"," ","A","P","I"," ","k","e","y","."," ",
      "P","l","e","a","s","e"," ","c","h","e","c","k"," ","y","o","u","r",
      " ","O","p","e","n","R","o","u","t","e","r"," ","A","P","I"," ","k",
      "e","y"," ","c","o","n","f","i","g","u","r","a","t","i","o","n",".">>

InsufficientCreditsMessage ==
    <<"I","n","s","u","f","f","i","c","i","e","n","t"," ","c","r","e","d",
      "i","t","s","."," ","P","l","e","a","s","e"," ","c","h","e","c","k",
      " ","y","o","u","r"," ","O","p","e","n","R","o","u","t","e","r"," ",
      "b","i","l","l","i","n","g",".">>

RateLimitMessage ==
    <<"R","a","t","e"," ","l","i","m","i","t"," ","e","x","c","e","e","d",
      "e","d","."," ","P","l","e","a","s","e"," ","w","a","i","t"," ","a",
      " ","m","o","m","e","n","t"," ","a","n","d"," ","t","r","y"," ","a",
      "g","a","i","n",".">>

RequestFailedPrefix ==
    <<"A","P","I"," ","r","e","q","u","e","s","t"," ","f","a","i","l","e",
      "d"," ","w","i","t","h"," ","s","t","a","t","u","s"," ">>

\* The message of the TypeError with which fetch rejects (engine's wording)
NetworkErrorMessage ==
    <<"F","a","i","l","e","d"," ","t","o"," ","f","e","t","c","h">>

\* The message of the SyntaxError with which response.json() rejects
JsonSyntaxErrorMessage ==
    <<"U","n","e","x","p","e","c","t","e","d"," ","e","n","d"," ","o","f",
      " ","J","S","O","N"," ","i","n","p","u","t">>

\* The messages of the TypeErrors raised by errorData.error, data.choices and
\* data.choices[0] when errorData or data is null or data.choices is undefined
NullErrorDataMessage ==
    <<"C","a","n","n","o","t"," ","r","e","a","d"," ","p","r","o","p","e",
      "r","t","i","e","s"," ","o","f"," ","n","u","l","l"," ","(","r","e",
      "a","d","i","n","g"," ","'","e","r","r","o","r","'",")">>

NullDataMessage ==
    <<"C","a","n","n","o","t"," ","r","e","a","d"," ","p","r","o","p","e",
      "r","t","i","e","s"," ","o","f"," ","n","u","l","l"," ","(","r","e",
      "a","d","i","n","g"," ","'","c","h","o","i","c","e","s","'",")">>

NoChoicesMessage ==
    <<"C","a","n","n","o","t"," ","r","e","a","d"," ","p","r","o","p","e",
      "r","t","i","e","s"," ","o","f"," ","u","n","d","e","f","i","n","e",
      "d"," ","(","r","e","a","d","i","n","g"," ","'","0","'",")">>

\* generatedContent and modifiedContent when the response holds no content
DefaultGeneratedContent ==
    <<"F","a","i","l","e","d"," ","t","o"," ","g","e","n","e","r","a","t",
      "e"," ","b","u","s","i","n","e","s","s"," ","p","l","a","n",".">>

DefaultModifiedContent ==
    <<"F","a","i","l","e","d"," ","t","o"," ","m","o","d","i","f","y"," ",
      "b","u","s","i","n","e","s","s"," ","p","l","a","n",".">>

ModifiedSuffix ==
    <<" ","(","M","o","d","i","f","i","e","d",")">>

\* Number.prototype.toString, for a status code
RECURSIVE ToDecimal(_)
ToDecimal(n) ==
    LET digit(d) == IF d = 0 THEN "0" ELSE DigitOf[d]
    IN  IF n < 10 THEN <<digit(n)>>
        ELSE ToDecimal(n \div 10) \o <<digit(n % 10)>>

\* response.ok
ResponseOk(status) == status \in 200..299

\* The status codes the endpoint answers with
Statuses == {200, 401, 402, 429, 500}

\* The body of a response that is not OK: whether it parses as JSON, whether
\* the parsed value is null, and errorData.error?.message (empty when absent)
ErrorBody(parses, isNull, message) ==
    [parses |-> parses, isNull |-> isNull, message |-> message]

ServerMessage ==
    <<"P","r","o","v","i","d","e","r"," ","r","e","t","u","r","n","e","d",
      " ","e","r","r","o","r">>

\* Not JSON, {"error": {"message": "Provider returned error"}}, null
ErrorBodies ==
    {ErrorBody(FALSE, FALSE, <<>>),
     ErrorBody(TRUE, FALSE, ServerMessage),
     ErrorBody(TRUE, TRUE, <<>>)}

\* The body of an OK response: whether it parses as JSON, whether the parsed
\* value is null, whether data.choices is an array, and
\* data.choices[0]?.message?.content (empty when absent)
OkBody(parses, isNull, hasChoices, text) ==
    [parses |-> parses, isNull |-> isNull, hasChoices |-> hasChoices,
     content |-> text]

\* Not JSON, {}, {"choices": []}, and a completion with each of the texts
OkBodies(texts) ==
    {OkBody(FALSE, FALSE, FALSE, <<>>),
     OkBody(TRUE, FALSE, FALSE, <<>>),
     OkBody(TRUE, FALSE, TRUE, <<>>)}
    \cup {OkBody(TRUE, FALSE, TRUE, t) : t \in texts}

Thrown(message) == [ok |-> FALSE, message |-> message]

\* Mutant: status 429 is reported with the message of the other statuses
FailureMessageNoRateLimit(status, body) ==
    IF status = 401 THEN InvalidKeyMessage
    ELSE IF status = 402 THEN InsufficientCreditsMessage
    ELSE RequestFailedPrefix \o ToDecimal(status)

\* if (!response.ok) { ... throw new Error(...) }: the message of the error
FailureMessage(status, body) ==
    IF status = 401 THEN InvalidKeyMessage
    ELSE IF status = 402 THEN InsufficientCreditsMessage
    ELSE IF status = 429 THEN RateLimitMessage
    ELSE IF body.parses /\ body.isNull THEN NullErrorDataMessage
    ELSE IF body.parses /\ body.message # <<>> THEN body.message
    ELSE RequestFailedPrefix \o ToDecimal(status)

\* What await fetch(...) and await response.json() settle with: fetch
\* rejects, or it resolves with a status and the body is read
FetchRejected == [rejected |-> TRUE, status |-> 0, body |-> ErrorBody(FALSE, FALSE, <<>>)]

Response(status, body) == [rejected |-> FALSE, status |-> status, body |-> body]

\* The bodies a response of the given status is read to
Bodies(status, texts) ==
    IF ResponseOk(status) THEN OkBodies(texts) ELSE ErrorBodies

Responses(texts) ==
    {FetchRejected}
    \cup UNION {{Response(status, body) : body \in Bodies(status, texts)} :
                   status \in Statuses}

\* Mutant: a body without choices yields the default content
OutcomeDefaultWithoutChoices(response, default) ==
    IF response.rejected THEN Thrown(NetworkErrorMessage)
    ELSE IF ~ResponseOk(response.status)
    THEN Thrown(FailureMessage(response.status, response.body))
    ELSE IF ~response.body.parses THEN Thrown(JsonSyntaxErrorMessage)
    ELSE IF response.body.isNull THEN Thrown(NullDataMessage)
    ELSE [ok |-> TRUE,
          content |-> IF response.body.content # <<>>
                      THEN response.body.content ELSE DefaultGeneratedContent]

\* What the part of generateBusinessPlan and of modifyBusinessPlan between the
\* request and the call of parseBusinessPlanSections yields: an error that
\* is thrown, or the content that is parsed
Outcome(response, default) ==
    IF response.rejected THEN Thrown(NetworkErrorMessage)
    ELSE IF ~ResponseOk(response.status)
    THEN Thrown(FailureMessage(response.status, response.body))
    ELSE IF ~response.body.parses THEN Thrown(JsonSyntaxErrorMessage)
    ELSE IF response.body.isNull THEN Thrown(NullDataMessage)
    ELSE IF ~response.body.hasChoices THEN Thrown(NoChoicesMessage)
    ELSE [ok |-> TRUE,
          content |-> IF response.body.content # <<>>
                      THEN response.body.content ELSE default]

(***************************************************************************)
(* The BusinessPlan page: its state and its handlers                       *)
(***************************************************************************)
NoCall == [stage |-> "none"]

FieldSet == {Fields[k] : k \in 1..Len(Fields)}

\* The initial formData, and the formData a generation resets the form to
EmptyForm == [f \in FieldSet |-> <<>>]

\* The modification requests the user types
ModificationRequests == {<<>>, <<"S","h","o","r","t","e","r">>}

\* The texts the endpoint generates
GeneratedTexts == {sectionHeaders[1] \o <<"\n">> \o Prose}

\* const requiredFields
requiredFields == <<"businessName", "industry", "businessType", "location",
                    "targetAudience", "uniqueValue">>

\* The names of the required fields, as text
FieldName ==
    [f \in {requiredFields[k] : k \in 1..Len(requiredFields)} |->
        CASE f = "businessName" -> <<"b","u","s","i","n","e","s","s","N","a","m","e">>
          [] f = "industry" -> <<"i","n","d","u","s","t","r","y">>
          [] f = "businessType" -> <<"b","u","s","i","n","e","s","s","T","y","p","e">>
          [] f = "location" -> <<"l","o","c","a","t","i","o","n">>
          [] f = "targetAudience" -> <<"t","a","r","g","e","t","A","u","d","i","e","n","c","e">>
          [] f = "uniqueValue" -> <<"u","n","i","q","u","e","V","a","l","u","e">>]

\* field.replace(/([A-Z])/g, ' $1')
RECURSIVE SpaceCapitals(_)
SpaceCapitals(s) ==
    IF s = <<>> THEN <<>>
    ELSE (IF Head(s) \in DOMAIN LowerOf THEN <<" ", Head(s)>> ELSE <<Head(s)>>)
         \o SpaceCapitals(Tail(s))

PleaseFillPrefix ==
    <<"P","l","e","a","s","e"," ","f","i","l","l"," ","i","n"," ","t","h",
      "e"," ">>

PleaseFillSuffix ==
    <<" ","f","i","e","l","d">>

\* The required fields that are empty after trim, by their index
MissingFields(form) ==
    {k \in 1..Len(requiredFields) : Trim(form[requiredFields[k]]) = <<>>}

\* validateForm: its result, and the error it sets when the result is false
FormValid(form) == MissingFields(form) = {}

ValidationError(form) ==
    LET k == CHOOSE a \in MissingFields(form) : \A b \in MissingFields(form) : a <= b
    IN  PleaseFillPrefix
        \o ToLowerCase(SpaceCapitals(FieldName[requiredFields[k]]))
        \o PleaseFillSuffix

\* The component the page renders
Screen ==
    IF showEditMode /\ editedPlan # NoPlan THEN "edit"
    ELSE IF showPlanView # NoPlan THEN "viewer"
    ELSE IF showGenerator THEN "generator"
    ELSE "list"

\* The generations and modifications that are awaiting the endpoint
InFlight ==
    (IF genCall # NoCall THEN 1 ELSE 0) + (IF modCall # NoCall THEN 1 ELSE 0)

\* How many times the title of a plan was given the suffix of a modified plan
RECURSIVE Modifications(_)
Modifications(title) ==
    LET n == Len(title) - Len(ModifiedSuffix)
    IN  IF n >= 0 /\ SubSeq(title, n + 1, Len(title)) = ModifiedSuffix
        THEN 1 + Modifications(SubSeq(title, 1, n))
        ELSE 0

\* The contents the endpoint's answers are parsed from, and
\* parseBusinessPlanSections tabulated over them
ParsedContents == GeneratedTexts \cup {DefaultGeneratedContent, DefaultModifiedContent}

SectionsOf == [text \in ParsedContents |-> parseBusinessPlanSections(text)]

\* setPlans(prev => [plan, ...prev])
PrependPlan(prev, plan) == <<plan>> \o prev

\* What parseBusinessPlanSections was called with and what it returned, with
\* the model of the instance at that time
Logged(text, secs) == [text |-> text, model |-> model, sections |-> secs]

\* What the model's user types into the form: the required fields are filled
\* in from top to bottom, each with its text, and the last one is emptied
TypedInputs(form) ==
    {<<requiredFields[k], FieldTexts[1][requiredFields[k]]>> :
        k \in {a \in MissingFields(form) : \A b \in MissingFields(form) : a <= b}}
    \cup {<<"uniqueValue", <<>>>>}

\* handleInputChange
handleInputChange ==
    /\ Screen = "generator"
    /\ \E typed \in TypedInputs(formData) :
            formData' = [formData EXCEPT ![typed[1]] = typed[2]]
    /\ error' = Null
    /\ UNCHANGED <<plans, showGenerator, showPlanView, showModifyMode,
                   modificationRequest, isGenerating, isModifying>>
    /\ UNCHANGED <<instanceVars, callVars>>
    /\ UNCHANGED editVars
    /\ UNCHANGED outsidePage

\* Mutant: the Generate button is never disabled
GenerateNeverDisabled == FALSE

\* disabled={isGenerating} of the Generate button
GenerateDisabled == isGenerating

\* disabled={!modificationRequest.trim() || isModifying} of the Apply button
ApplyDisabled == Trim(modificationRequest) = <<>> \/ isModifying

\* handleGeneratePlan up to its await, and through its catch and finally when
\* generateBusinessPlan throws before its request
handleGeneratePlan ==
    /\ Screen = "generator"
    /\ ~GenerateDisabled
    /\ IF ~FormValid(formData)
       THEN /\ error' = ValidationError(formData)
            /\ UNCHANGED <<isGenerating, genCall, requests>>
       ELSE IF ~KeyConfigured(apiKey)
       THEN /\ error' = KeyNotConfiguredMessage
            /\ UNCHANGED <<isGenerating, genCall, requests>>
       ELSE /\ requests < MaxRequests
            /\ isGenerating' = TRUE
            /\ error' = Null
            /\ genCall' = [stage |-> "fetch", input |-> formData]
            /\ requests' = requests + 1
    /\ UNCHANGED <<plans, showGenerator, showPlanView, showModifyMode,
                   modificationRequest, isModifying, formData>>
    /\ UNCHANGED <<instanceVars, clock, modCall, parseLog>>
    /\ UNCHANGED editVars
    /\ UNCHANGED outsidePage

\* Mutant: the busy flag is cleared in the try block, not in a finally block
GenerateSettlesWithoutFinally(response, now) ==
    /\ genCall.stage = "fetch"
    /\  LET out == Outcome(response, DefaultGeneratedContent)
        IN  IF out.ok
            THEN LET secs == SectionsOf[out.content]
                     generatedPlan ==
                        [id        |-> now,
                         title     |-> genCall.input.businessName \o BusinessPlanSuffix,
                         industry  |-> genCall.input.industry,
                         createdAt |-> now,
                         sections  |-> secs,
                         status    |-> "complete"]
                 IN  /\ plans' = <<generatedPlan>> \o plans
                     /\ showGenerator' = FALSE
                     /\ formData' = EmptyForm
                     /\ parseLog' = {[text |-> out.content, model |-> model,
                                      sections |-> secs]}
                     /\ clock' = now
                     /\ isGenerating' = FALSE
                     /\ UNCHANGED error
            ELSE /\ error' = out.message
                 /\ UNCHANGED <<plans, showGenerator, formData, parseLog, clock,
                                isGenerating>>
    /\ genCall' = NoCall
    /\ UNCHANGED <<showPlanView, showModifyMode, modificationRequest, isModifying,
                   showEditMode, editedPlan>>
    /\ UNCHANGED <<instanceVars, modCall, requests>>
    /\ UNCHANGED outsidePage

\* The request of generateBusinessPlan settles with the given response, read
\* at time now: lines 99-137 (a step between await fetch and await
\* response.json() changes nothing the page can see), and handleGeneratePlan
\* from its await to its end
GenerateSettlesWith(response, now) ==
    /\ genCall.stage = "fetch"
    /\  LET out == Outcome(response, DefaultGeneratedContent)
        IN  IF out.ok
            THEN LET secs == SectionsOf[out.content]
                     generatedPlan ==
                        [id        |-> now,
                         title     |-> genCall.input.businessName \o BusinessPlanSuffix,
                         industry  |-> genCall.input.industry,
                         createdAt |-> now,
                         sections  |-> secs,
                         status    |-> "complete"]
                 IN  /\ plans' = PrependPlan(plans, generatedPlan)
                     /\ showGenerator' = FALSE
                     /\ formData' = EmptyForm
                     /\ parseLog' = {Logged(out.content, secs)}
                     /\ clock' = now
                     /\ UNCHANGED error
            ELSE /\ error' = out.message
                 /\ UNCHANGED <<plans, showGenerator, formData, parseLog, clock>>
    /\ isGenerating' = FALSE
    /\ genCall' = NoCall
    /\ UNCHANGED <<showPlanView, showModifyMode, modificationRequest, isModifying>>
    /\ UNCHANGED <<instanceVars, modCall, requests>>
    /\ UNCHANGED editVars
    /\ UNCHANGED outsidePage

GenerateSettles ==
    \E response \in Responses(GeneratedTexts), now \in clock..MaxClock :
        GenerateSettlesWith(response, now)

\* handleModifyRequest up to its await, and through its catch and finally
\* when modifyBusinessPlan throws before its request
handleModifyRequest ==
    /\ Screen = "viewer"
    /\ showModifyMode
    /\ ~ApplyDisabled
    /\ IF ~KeyConfigured(apiKey)
       THEN /\ error' = KeyNotConfiguredMessage
            /\ UNCHANGED <<isModifying, modCall, requests>>
       ELSE /\ requests < MaxRequests
            /\ isModifying' = TRUE
            /\ error' = Null
            /\ modCall' = [stage |-> "fetch", plan |-> showPlanView,
                           request |-> modificationRequest]
            /\ requests' = requests + 1
    /\ UNCHANGED <<plans, showGenerator, showPlanView, showModifyMode,
                   modificationRequest, isGenerating, formData>>
    /\ UNCHANGED <<instanceVars, clock, genCall, parseLog>>
    /\ UNCHANGED editVars
    /\ UNCHANGED outsidePage

\* The request of modifyBusinessPlan settles with the given response, read
\* at time now: lines 361-399, and handleModifyRequest from its await to its
\* end
ModifySettlesWith(response, now) ==
    /\ modCall.stage = "fetch"
    /\  LET out == Outcome(response, DefaultModifiedContent)
        IN  IF out.ok
            THEN LET secs == SectionsOf[out.content]
                     modifiedPlan ==
                        [modCall.plan EXCEPT
                            !.id        = now,
                            !.title     = modCall.plan.title \o ModifiedSuffix,
                            !.createdAt = now,
                            !.sections  = secs,
                            !.status    = "complete"]
                 IN  /\ plans' = PrependPlan(plans, modifiedPlan)
                     /\ showPlanView' = modifiedPlan
                     /\ showModifyMode' = FALSE
                     /\ modificationRequest' = <<>>
                     /\ parseLog' = {Logged(out.content, secs)}
                     /\ clock' = now
                     /\ UNCHANGED error
            ELSE /\ error' = out.message
                 /\ UNCHANGED <<plans, showPlanView, showModifyMode,
                                modificationRequest, parseLog, clock>>
    /\ isModifying' = FALSE
    /\ modCall' = NoCall
    /\ UNCHANGED <<showGenerator, isGenerating, formData>>
    /\ UNCHANGED <<instanceVars, genCall, requests>>
    /\ UNCHANGED editVars
    /\ UNCHANGED outsidePage

ModifySettles ==
    \E response \in Responses(GeneratedTexts), now \in clock..MaxClock :
        ModifySettlesWith(response, now)

\* deletePlan
deletePlan ==
    /\ Screen = "list"
    /\ \E k \in 1..Len(plans) :
        plans' = SelectSeq(plans, LAMBDA plan : plan.id # plans[k].id)
    /\ UNCHANGED <<showGenerator, showPlanView, showModifyMode,
                   modificationRequest, isGenerating, isModifying, error, formData>>
    /\ UNCHANGED <<instanceVars, callVars>>
    /\ UNCHANGED editVars
    /\ UNCHANGED outsidePage

\* onClick={() => setShowGenerator(true)}
OpenGenerator ==
    /\ Screen = "list"
    /\ showGenerator' = TRUE
    /\ UNCHANGED <<plans, showPlanView, showModifyMode, modificationRequest,
                   isGenerating, isModifying, error, formData>>
    /\ UNCHANGED <<instanceVars, callVars>>
    /\ UNCHANGED editVars
    /\ UNCHANGED outsidePage

\* onClick={() => setShowGenerator(false)}
CancelGenerator ==
    /\ Screen = "generator"
    /\ showGenerator' = FALSE
    /\ UNCHANGED <<plans, showPlanView, showModifyMode, modificationRequest,
                   isGenerating, isModifying, error, formData>>
    /\ UNCHANGED <<instanceVars, callVars>>
    /\ UNCHANGED editVars
    /\ UNCHANGED outsidePage

\* onClick={() => setShowPlanView(plan)}
ViewPlan ==
    /\ Screen = "list"
    /\ \E k \in 1..Len(plans) : showPlanView' = plans[k]
    /\ UNCHANGED <<plans, showGenerator, showModifyMode, modificationRequest,
                   isGenerating, isModifying, error, formData>>
    /\ UNCHANGED <<instanceVars, callVars>>
    /\ UNCHANGED editVars
    /\ UNCHANGED outsidePage

\* onClick={() => setShowPlanView(null)}
BackToPlans ==
    /\ Screen = "viewer"
    /\ showPlanView' = NoPlan
    /\ UNCHANGED <<plans, showGenerator, showModifyMode, modificationRequest,
                   isGenerating, isModifying, error, formData>>
    /\ UNCHANGED <<instanceVars, callVars>>
    /\ UNCHANGED editVars
    /\ UNCHANGED outsidePage

\* onClick={() => setShowModifyMode(!showModifyMode)}
ToggleModifyMode ==
    /\ Screen = "viewer"
    /\ showModifyMode' = ~showModifyMode
    /\ UNCHANGED <<plans, showGenerator, showPlanView, modificationRequest,
                   isGenerating, isModifying, error, formData>>
    /\ UNCHANGED <<instanceVars, callVars>>
    /\ UNCHANGED editVars
    /\ UNCHANGED outsidePage

\* onChange={(e) => setModificationRequest(e.target.value)}
ChangeModificationRequest ==
    /\ Screen = "viewer"
    /\ showModifyMode
    /\ \E value \in ModificationRequests : modificationRequest' = value
    /\ UNCHANGED <<plans, showGenerator, showPlanView, showModifyMode,
                   isGenerating, isModifying, error, formData>>
    /\ UNCHANGED <<instanceVars, callVars>>
    /\ UNCHANGED editVars
    /\ UNCHANGED outsidePage

\* The Cancel button of the modification panel
CancelModify ==
    /\ Screen = "viewer"
    /\ showModifyMode
    /\ showModifyMode' = FALSE
    /\ modificationRequest' = <<>>
    /\ UNCHANGED <<plans, showGenerator, showPlanView, isGenerating,
                   isModifying, error, formData>>
    /\ UNCHANGED <<instanceVars, callVars>>
    /\ UNCHANGED editVars
    /\ UNCHANGED outsidePage

\* What the model's user types into the title and into a section of the
\* edit screen
EditedTitles == {<<"P","l","a","n"," ","B">>}

EditedContents == {<<"E","d","i","t","e","d">>}

\* handleEditPlan, called by the edit button of a plan of the list with that
\* plan and by the edit button of the viewer with showPlanView
handleEditPlan ==
    /\ Screen \in {"list", "viewer"}
    /\ \E plan \in (IF Screen = "viewer" THEN {showPlanView}
                     ELSE {plans[k] : k \in 1..Len(plans)}) :
            editedPlan' = plan
    /\ showEditMode' = TRUE
    /\ showPlanView' = NoPlan
    /\ UNCHANGED <<plans, showGenerator, showModifyMode, modificationRequest,
                   isGenerating, isModifying, error, formData>>
    /\ UNCHANGED <<instanceVars, callVars>>
    /\ UNCHANGED outsidePage

\* Mutant: the collection is not written on save
ReplaceEditedNowhere(prev, edited) == prev

\* prev.map(plan => plan.id === editedPlan.id ? editedPlan : plan)
ReplaceEdited(prev, edited) ==
    [k \in 1..Len(prev) |-> IF prev[k].id = edited.id THEN edited ELSE prev[k]]

\* handleSaveEdit; the edit screen is rendered only with an edited plan
handleSaveEdit ==
    /\ Screen = "edit"
    /\ plans' = ReplaceEdited(plans, editedPlan)
    /\ showEditMode' = FALSE
    /\ showPlanView' = editedPlan
    /\ editedPlan' = NoPlan
    /\ UNCHANGED <<showGenerator, showModifyMode, modificationRequest,
                   isGenerating, isModifying, error, formData>>
    /\ UNCHANGED <<instanceVars, callVars>>
    /\ UNCHANGED outsidePage

\* handleCancelEdit: both of its branches end without a further write
handleCancelEdit ==
    /\ Screen = "edit"
    /\ showEditMode' = FALSE
    /\ editedPlan' = NoPlan
    /\ UNCHANGED <<plans, showGenerator, showPlanView, showModifyMode,
                   modificationRequest, isGenerating, isModifying, error, formData>>
    /\ UNCHANGED <<instanceVars, callVars>>
    /\ UNCHANGED outsidePage

\* onChange={(e) => setEditedPlan({ ...editedPlan, title: e.target.value })}
ChangeEditedTitle ==
    /\ Screen = "edit"
    /\ \E title \in EditedTitles : editedPlan' = [editedPlan EXCEPT !.title = title]
    /\ UNCHANGED <<plans, showGenerator, showPlanView, showEditMode, showModifyMode,
                   modificationRequest, isGenerating, isModifying, error, formData>>
    /\ UNCHANGED <<instanceVars, callVars>>
    /\ UNCHANGED outsidePage

\* Mutant: the section is written in place, in the array the edited copy
\* shares with the plan it was copied from
AfterWriteInPlace(prev, edited, updatedSections) ==
    [k \in 1..Len(prev) |->
        IF prev[k].id = edited.id /\ prev[k].sections = edited.sections
        THEN [prev[k] EXCEPT !.sections = updatedSections]
        ELSE prev[k]]

\* const updatedSections = [...editedPlan.sections] and
\* {...updatedSections[sectionIndex], content}: the array and the section
\* written to are copies, so the plans of the collection keep their sections,
\* also the plan whose array the shallow copy of handleEditPlan shares
AfterWriteToCopy(prev, edited, updatedSections) == prev

\* updateEditedSection
updateEditedSection ==
    /\ Screen = "edit"
    /\ \E sectionIndex \in 1..Len(editedPlan.sections), newContent \in EditedContents :
        LET updatedSections ==
                [editedPlan.sections EXCEPT ![sectionIndex].content = newContent]
        IN  /\ editedPlan' = [editedPlan EXCEPT !.sections = updatedSections]
            /\ plans' = AfterWriteToCopy(plans, editedPlan, updatedSections)
    /\ UNCHANGED <<showGenerator, showPlanView, showEditMode, showModifyMode,
                   modificationRequest, isGenerating, isModifying, error, formData>>
    /\ UNCHANGED <<instanceVars, callVars>>
    /\ UNCHANGED outsidePage

\* setModel
setModel ==
    /\ \E m \in Models : model' = m
    /\ UNCHANGED apiKey
    /\ UNCHANGED <<pageVars, callVars>>
    /\ UNCHANGED outsidePage

(***************************************************************************)
(* AuthProvider                                                            *)
(***************************************************************************)
\* The account of the model's user
Account == "ann@example.com"

\* session = null, user = null
NoSession == [token |-> 0]

NoUser == [id |-> ""]

\* The sessions Supabase issues for the account: a first token and the
\* tokens of its refreshes
SessionOf(token) == [token |-> token, user |-> Account]

\* transformUser
transformUser(supabaseUser) == [id |-> supabaseUser, email |-> supabaseUser]

RestoreFailedMessage ==
    <<"F","a","i","l","e","d"," ","t","o"," ","r","e","s","t","o","r","e",
      " ","s","e","s","s","i","o","n">>

InitializationFailedMessage ==
    <<"A","u","t","h","e","n","t","i","c","a","t","i","o","n"," ","i","n",
      "i","t","i","a","l","i","z","a","t","i","o","n"," ","f","a","i","l",
      "e","d">>

\* The messages of the errors signIn returns
InvalidCredentials ==
    <<"I","n","v","a","l","i","d"," ","l","o","g","i","n"," ","c","r","e",
      "d","e","n","t","i","a","l","s">>

EmailNotConfirmed ==
    <<"E","m","a","i","l"," ","n","o","t"," ","c","o","n","f","i","r","m",
      "e","d">>

InvalidCredentialsMessage ==
    <<"I","n","v","a","l","i","d"," ","e","m","a","i","l"," ","o","r"," ",
      "p","a","s","s","w","o","r","d","."," ","P","l","e","a","s","e"," ",
      "c","h","e","c","k"," ","y","o","u","r"," ","c","r","e","d","e","n",
      "t","i","a","l","s",".">>

EmailNotConfirmedMessage ==
    <<"P","l","e","a","s","e"," ","c","h","e","c","k"," ","y","o","u","r",
      " ","e","m","a","i","l"," ","a","n","d"," ","c","l","i","c","k"," ",
      "t","h","e"," ","c","o","n","f","i","r","m","a","t","i","o","n"," ",
      "l","i","n","k",".">>

LoginFailedMessage ==
    <<"L","o","g","i","n"," ","f","a","i","l","e","d","."," ","P","l","e",
      "a","s","e"," ","t","r","y"," ","a","g","a","i","n",".">>

\* What an awaited call of the Supabase client settles with: a result
\* without error, a result with an error of the given message, a rejection
\* with an Error of the given message
Settled(kind, message) == [kind |-> kind, message |-> message]

NotSettled == Settled("none", <<>>)

Kinds == {"ok", "error", "throw"}

SignInResults ==
    {Settled("ok", <<>>),
     Settled("error", InvalidCredentials),
     Settled("error", EmailNotConfirmed),
     Settled("error", <<>>),
     Settled("throw", NetworkErrorMessage)}

SignOutResults ==
    {Settled("ok", <<>>),
     Settled("error", NetworkErrorMessage),
     Settled("throw", NetworkErrorMessage)}

GetSessionResults == SignOutResults

\* The message login throws and puts in the error state
LoginErrorMessage(result) ==
    IF result.kind = "throw" THEN result.message
    ELSE IF Includes(result.message, InvalidCredentials) THEN InvalidCredentialsMessage
    ELSE IF Includes(result.message, EmailNotConfirmed) THEN EmailNotConfirmedMessage
    ELSE IF result.message # <<>> THEN result.message
    ELSE LoginFailedMessage

\* A call of the provider: its position, and what its await settled with
Idle == [pc |-> "idle", result |-> NotSettled]

Awaiting == [pc |-> "await", result |-> NotSettled]

Resuming(result) == [pc |-> "resume", result |-> result]

Returned(result) == [pc |-> "idle", result |-> result]

\* Mutant: when signOut throws, logout leaves the local state as it is
AfterLogoutUnlessThrown(result, currentUser, currentSession) ==
    IF result.kind = "throw"
    THEN <<currentUser, currentSession>>
    ELSE <<NoUser, NoSession>>

\* The user and the session logout sets after signOut settled: in its catch
\* block when signOut threw, else in its try block
AfterLogout(result, currentUser, currentSession) ==
    IF result.kind = "throw"
    THEN <<NoUser, NoSession>>
    ELSE <<NoUser, NoSession>>

\* initializeAuth from its await to its end
InitializeAuthSettles ==
    /\ initCall.pc = "await"
    /\ \E result \in GetSessionResults :
        /\ initCall' = Returned(result)
        /\ IF result.kind = "throw"
           THEN /\ authError' = InitializationFailedMessage
                /\ UNCHANGED <<session, user>>
           ELSE IF result.kind = "error"
           THEN /\ authError' = RestoreFailedMessage
                /\ UNCHANGED <<session, user>>
           ELSE IF stored # NoSession
           THEN /\ session' = stored
                /\ user' = transformUser(stored.user)
                /\ UNCHANGED authError
           ELSE UNCHANGED <<session, user, authError>>
    /\ isLoading' = FALSE
    /\ UNCHANGED <<stored, events, loginCall, logoutCall>>
    /\ UNCHANGED outsideAuth

\* The callback given to supabase.auth.onAuthStateChange, for the oldest
\* event not yet delivered
onAuthStateChange ==
    /\ events # <<>>
    /\ session' = Head(events)
    /\ user' = IF Head(events) # NoSession
               THEN transformUser(Head(events).user) ELSE NoUser
    /\ isLoading' = FALSE
    /\ events' = Tail(events)
    /\ UNCHANGED <<authError, stored, initCall, loginCall, logoutCall>>
    /\ UNCHANGED outsideAuth

\* The client refreshes the token of its session and announces it
TokenRefreshed ==
    /\ stored # NoSession
    /\ stored.token < MaxTokens
    /\ Len(events) < MaxEvents
    /\ stored' = SessionOf(stored.token + 1)
    /\ events' = Append(events, stored')
    /\ UNCHANGED <<user, session, isLoading, authError, initCall, loginCall,
                   logoutCall>>
    /\ UNCHANGED outsideAuth

\* clearError
clearError ==
    /\ authError # Null
    /\ authError' = Null
    /\ UNCHANGED <<user, session, isLoading, stored, events, initCall,
                   loginCall, logoutCall>>
    /\ UNCHANGED outsideAuth

\* login up to its await
login ==
    /\ loginCall.pc = "idle"
    /\ isLoading' = TRUE
    /\ authError' = Null
    /\ loginCall' = Awaiting
    /\ UNCHANGED <<user, session, stored, events, initCall, logoutCall>>
    /\ UNCHANGED outsideAuth

\* signIn settles: a sign-in that succeeds gives the client a session, which
\* the client announces
signInSettles ==
    /\ loginCall.pc = "await"
    /\ \E result \in SignInResults :
        /\ loginCall' = Resuming(result)
        /\ IF result.kind = "ok"
           THEN /\ Len(events) < MaxEvents
                /\ stored' = SessionOf(1)
                /\ events' = Append(events, stored')
           ELSE UNCHANGED <<stored, events>>
    /\ UNCHANGED <<user, session, isLoading, authError, initCall, logoutCall>>
    /\ UNCHANGED outsideAuth

\* login from its await to its end
LoginResumes ==
    /\ loginCall.pc = "resume"
    /\ authError' = IF loginCall.result.kind = "ok" THEN authError
                    ELSE LoginErrorMessage(loginCall.result)
    /\ isLoading' = FALSE
    /\ loginCall' = Returned(loginCall.result)
    /\ UNCHANGED <<user, session, stored, events, initCall, logoutCall>>
    /\ UNCHANGED outsideAuth

\* logout up to its await
logout ==
    /\ logoutCall.pc = "idle"
    /\ isLoading' = TRUE
    /\ authError' = Null
    /\ logoutCall' = Awaiting
    /\ UNCHANGED <<user, session, stored, events, initCall, loginCall>>
    /\ UNCHANGED outsideAuth

\* signOut settles: a sign-out that succeeds removes the session of the
\* client, which the client announces
signOutSettles ==
    /\ logoutCall.pc = "await"
    /\ \E result \in SignOutResults :
        /\ logoutCall' = Resuming(result)
        /\ IF result.kind = "ok"
           THEN /\ Len(events) < MaxEvents
                /\ stored' = NoSession
                /\ events' = Append(events, NoSession)
           ELSE UNCHANGED <<stored, events>>
    /\ UNCHANGED <<user, session, isLoading, authError, initCall, loginCall>>
    /\ UNCHANGED outsideAuth

\* logout from its await to its end
LogoutResumes ==
    /\ logoutCall.pc = "resume"
    /\ user' = AfterLogout(logoutCall.result, user, session)[1]
    /\ session' = AfterLogout(logoutCall.result, user, session)[2]
    /\ isLoading' = FALSE
    /\ logoutCall' = Returned(logoutCall.result)
    /\ UNCHANGED <<authError, stored, events, initCall, loginCall>>
    /\ UNCHANGED outsideAuth

(***************************************************************************)
(* Specifications                                                          *)
(***************************************************************************)
\* The AuthProvider after its first render and its effect: initializeAuth
\* awaits getCurrentSession; the client holds the given session and has or
\* has not announced it to the listener yet
InitAuthWith(kept, announced) ==
    /\ user = NoUser
    /\ session = NoSession
    /\ isLoading = TRUE
    /\ authError = Null
    /\ stored = kept
    /\ events = announced
    /\ initCall = Awaiting
    /\ loginCall = Idle
    /\ logoutCall = Idle

InitAuth == InitAuthWith(NoSession, <<>>)

\* The generator instance after its constructor
InitInstance(key) ==
    /\ apiKey = key
    /\ model = DefaultModel

\* The BusinessPlan page after its first render, with the given form
InitPageWith(form) ==
    /\ plans = <<>>
    /\ showGenerator = FALSE
    /\ showPlanView = NoPlan
    /\ showEditMode = FALSE
    /\ showModifyMode = FALSE
    /\ editedPlan = NoPlan
    /\ modificationRequest = <<>>
    /\ isGenerating = FALSE
    /\ isModifying = FALSE
    /\ error = Null
    /\ formData = form

InitCalls ==
    /\ clock = 1
    /\ genCall = NoCall
    /\ modCall = NoCall
    /\ parseLog = {}
    /\ requests = 0

\* No stepwise run of parseBusinessPlanSections
IdleParser ==
    /\ content = <<>>
    /\ pc = "idle"
    /\ cleanContent = <<>>
    /\ lines = <<>>
    /\ idx = 1
    /\ currentSection = <<>>
    /\ currentContent = <<>>
    /\ sections = <<>>

InitWith(text) ==
    /\ content = text
    /\ pc = "clean"
    /\ cleanContent = <<>>
    /\ lines = <<>>
    /\ idx = 1
    /\ currentSection = <<>>
    /\ currentContent = <<>>
    /\ sections = <<>>
    /\ input = DefaultInput
    /\ businessPlan = NoPlan
    /\ pass = 1
    /\ messages = <<>>
    /\ InitInstance("sk-or-v1-0")
    /\ InitPageWith(EmptyForm)
    /\ InitCalls
    /\ InitAuth

\* parseBusinessPlanSections on generated texts of at most MaxLines lines and
\* on generated texts of at most MaxBlocks header-and-body blocks
Init ==
    \E text \in Texts(HeaderLogicLines, MaxLines) \cup Texts(Blocks, MaxBlocks) :
        InitWith(text)

Next == ParseStep

Spec == Init /\ [][Next]_vars

\* parseBusinessPlanSections on generated texts with markdown decoration
InitMarkup == \E text \in Texts(MarkupLines, MaxMarkupLines) : InitWith(text)

SpecMarkup == InitMarkup /\ [][Next]_vars

\* parseBusinessPlanSections on texts that hold the whole catalog
InitCatalog ==
    \E style \in HeaderStyles, special \in 1..Len(sectionHeaders),
       v \in 1..Len(ProseVariants), sep \in Separators :
        InitWith(CatalogText(style, special, v, sep))

SpecCatalog == InitCatalog /\ [][Next]_vars

\* parseBusinessPlanSections on texts whose header line is decorated
InitDecorated ==
    \E lead \in 1..Len(Leads), kind \in DecorationKinds,
       k \in 1..Len(sectionHeaders), body \in 1..Len(DecoratedBodies) :
        \E n \in DecorationLevels(kind) :
            InitWith(DecoratedText(lead, kind, n, k, body))

SpecDecorated == InitDecorated /\ [][Next]_vars

\* parseBusinessPlanSections on texts of two numbered headers with prose
InitNumbered ==
    \E k1 \in 1..Len(sectionHeaders), k2 \in 1..Len(sectionHeaders) :
        InitWith(NumberedText(k1, k2))

SpecNumbered == InitNumbered /\ [][Next]_vars

\* The request of generateBusinessPlan, for every BusinessPlanInput
InitRequest ==
    /\ IdleParser
    /\ InitInstance("sk-or-v1-0")
    /\ InitPageWith(EmptyForm)
    /\ InitCalls
    /\ InitAuth
    /\ \E filled \in SUBSET {Fields[k] : k \in 1..Len(Fields)},
          v \in 1..Len(FieldTexts) :
            input = Profile(filled, v)
    /\ businessPlan = NoPlan
    /\ pass = 1
    /\ messages = <<>>

NextRequest == BuildRequest

SpecRequest == InitRequest /\ [][NextRequest]_vars

\* The BusinessPlan page and the generator instance it shares: generations,
\* modifications, and the user's steps between them
InitPage ==
    /\ IdleParser
    /\ input = DefaultInput
    /\ businessPlan = NoPlan
    /\ pass = 1
    /\ messages = <<>>
    /\ \E key \in ApiKeys : InitInstance(key)
    /\ InitPageWith(EmptyForm)
    /\ InitCalls
    /\ InitAuth

NextPage ==
    \/ handleInputChange
    \/ handleGeneratePlan
    \/ GenerateSettles
    \/ handleModifyRequest
    \/ ModifySettles
    \/ deletePlan
    \/ OpenGenerator
    \/ CancelGenerator
    \/ ViewPlan
    \/ BackToPlans
    \/ ToggleModifyMode
    \/ ChangeModificationRequest
    \/ CancelModify

SpecPage == InitPage /\ [][NextPage]_vars

\* The page with its edit screen. The endpoint answers with a completion or
\* the request is rejected.
EditResponses ==
    {FetchRejected} \cup {Response(200, OkBody(TRUE, FALSE, TRUE, t)) : t \in GeneratedTexts}

GenerateSettlesEdit ==
    \E response \in EditResponses, now \in clock..MaxClock :
        GenerateSettlesWith(response, now)

ModifySettlesEdit ==
    \E response \in EditResponses, now \in clock..MaxClock :
        ModifySettlesWith(response, now)

NextEdit ==
    \/ handleInputChange
    \/ handleGeneratePlan
    \/ GenerateSettlesEdit
    \/ handleModifyRequest
    \/ ModifySettlesEdit
    \/ deletePlan
    \/ OpenGenerator
    \/ ViewPlan
    \/ BackToPlans
    \/ ToggleModifyMode
    \/ ChangeModificationRequest
    \/ handleEditPlan
    \/ handleSaveEdit
    \/ handleCancelEdit
    \/ ChangeEditedTitle
    \/ updateEditedSection

SpecEdit == InitPage /\ [][NextEdit]_vars

\* The AuthProvider with the Supabase client: a session kept from an earlier
\* visit or none, logins, logouts, token refreshes
InitSignedOutPage ==
    /\ IdleParser
    /\ input = DefaultInput
    /\ businessPlan = NoPlan
    /\ pass = 1
    /\ messages = <<>>
    /\ InitInstance("sk-or-v1-0")
    /\ InitPageWith(EmptyForm)
    /\ InitCalls

InitAuthProvider ==
    /\ InitSignedOutPage
    /\ \E kept \in {NoSession, SessionOf(1)}, announced \in BOOLEAN :
            InitAuthWith(kept, IF announced THEN <<kept>> ELSE <<>>)

NextAuth ==
    \/ InitializeAuthSettles
    \/ onAuthStateChange
    \/ TokenRefreshed
    \/ clearError
    \/ login
    \/ signInSettles
    \/ LoginResumes
    \/ logout
    \/ signOutSettles
    \/ LogoutResumes

SpecAuth == InitAuthProvider /\ [][NextAuth]_vars

\* The generations and modifications of the page on the generator instance,
\* with setModel called on the instance at any time
NextShared ==
    \/ handleInputChange
    \/ handleGeneratePlan
    \/ GenerateSettles
    \/ handleModifyRequest
    \/ ModifySettles
    \/ OpenGenerator
    \/ ViewPlan
    \/ BackToPlans
    \/ ToggleModifyMode
    \/ ChangeModificationRequest
    \/ setModel

SpecShared == InitPage /\ [][NextShared]_vars

\* A generated text is parsed, the plan is built, exported, and the exported
\* text is parsed again
InitRoundTrip == \E text \in Texts(PlanLines, MaxPlanLines) : InitWith(text)

NextRoundTrip == ParseStep \/ GenerateStep \/ ReparseStep

SpecRoundTrip == InitRoundTrip /\ [][NextRoundTrip]_vars

(***************************************************************************)
(* What the parser's result is compared with                               *)
(***************************************************************************)
Titles(secs) == [n \in 1..Len(secs) |-> secs[n].title]

\* The line the loop has just consumed, and whether it took the header branch:
\* the content branch leaves at least a line break in currentContent.
InLoopAfterLine == pc = "loop" /\ idx > 1
LastLine == Trim(lines[idx - 1])
TookHeaderBranch == currentContent = <<>>

\* The lines of the normalized text that are recognised as headers
HeaderLineIndexes == {k \in 1..Len(lines) : MatchedHeader(lines[k]) # <<>>}

\* Of the header lines hdr, those with a non-blank line between them and the
\* next header line
Emitting(hdr) ==
    {k \in hdr :
        \E j \in (k + 1)..Len(lines) :
            /\ \A m \in (k + 1)..j : m \notin hdr
            /\ Trim(lines[j]) # <<>>}

EmittingLines == Emitting(HeaderLineIndexes)

\* The titles of the header lines em, in text order
TitlesOf(em) ==
    [n \in 1..Cardinality(em) |->
        MatchedHeader(lines[CHOOSE k \in em : Cardinality({j \in em : j < k}) = n - 1])]

CatalogIndex(t) == CHOOSE k \in 1..Len(sectionHeaders) : sectionHeaders[k] = t

\* Text without markup characters, trimmed, without blank or indented lines
PlainTrimmed(s) ==
    /\ s # <<>>
    /\ \A k \in 1..Len(s) : s[k] \notin {"*", "#", "-", Bullet}
    /\ Trim(s) = s
    /\ \A k \in 1..(Len(s) - 1) : s[k] = "\n" => s[k + 1] \notin WhiteSpace

C2_TenSectionsInCatalogOrder ==
    pc = "done" =>
        /\ Len(sections) = Len(sectionHeaders)
        /\ Titles(sections) = sectionHeaders
        /\ \A n \in 1..Len(sections) : sections[n].content # <<>>

(***************************************************************************)
(* C3  The parser is total: on every text, the empty text included, the    *)
(* loop runs over the lines of the text once and the parser returns a      *)
(* sequence of at least one section.                                       *)
(***************************************************************************)
C3_Total ==
    /\ pc \in {"clean", "loop", "done"}
    /\ pc = "loop" => idx \in 1..(Len(lines) + 1)
    /\ pc = "done" => idx = Len(lines) + 1 /\ Len(sections) >= 1

\* The empty text, and a text of blank lines only, parsed to the end
C3_Witness ==
    /\ pc = "done"
    /\ Trim(content) = <<>>
    /\ Len(content) > 0
    /\ Len(sections) = 1

(***************************************************************************)
(* C4  A line of the normalized text is taken as a header if and only if,  *)
(* for some catalog title T, the lowercased trimmed line contains the      *)
(* lowercased T and (the trimmed line starts with digits and a period or   *)
(* equals T case-insensitively); every other line is appended as content.  *)
(***************************************************************************)
C4_StartsWithOrdinal(t) ==
    \E n \in 1..Len(t) :
        /\ \A k \in 1..n : t[k] \in Digits
        /\ At(t, n + 1) = "."

C4_Rule(t, T) ==
    /\ Includes(ToLowerCase(t), ToLowerCase(T))
    /\ (C4_StartsWithOrdinal(t) \/ ToLowerCase(t) = ToLowerCase(T))

C4_HeaderRule ==
    InLoopAfterLine =>
        /\ TookHeaderBranch <=>
              \E k \in 1..Len(sectionHeaders) : C4_Rule(LastLine, sectionHeaders[k])
        /\ TookHeaderBranch => C4_Rule(LastLine, currentSection)
        /\ ~TookHeaderBranch =>
              /\ Len(currentContent) >= Len(lines[idx - 1]) + 1
              /\ SubSeq(currentContent,
                        Len(currentContent) - Len(lines[idx - 1]),
                        Len(currentContent)) = lines[idx - 1] \o <<"\n">>

\* A title in lower case and indented has just been taken as a header
C4_Witness ==
    /\ InLoopAfterLine
    /\ TookHeaderBranch
    /\ LastLine # lines[idx - 1]
    /\ LastLine # currentSection
    /\ ~C4_StartsWithOrdinal(LastLine)

(***************************************************************************)
(* C5  As claimed: every line taken as a header is, apart from an optional *)
(* leading ordinal marker (digits and a period), the catalog title itself  *)
(* and nothing else.                                                       *)
(***************************************************************************)
\* The line without its leading ordinal marker
C5_WithoutOrdinal(t) ==
    IF C4_StartsWithOrdinal(t)
    THEN LET n == CHOOSE n \in 1..Len(t) :
                     /\ \A k \in 1..n : t[k] \in Digits
                     /\ At(t, n + 1) = "."
         IN  Trim(SubSeq(t, n + 2, Len(t)))
    ELSE t

C5_HeaderIsTitleOnly ==
    (InLoopAfterLine /\ TookHeaderBranch) =>
        ToLowerCase(C5_WithoutOrdinal(LastLine)) = ToLowerCase(currentSection)

(***************************************************************************)
(* C5 amended  A line that mentions a catalog title inside longer prose is *)
(* taken as a header exactly when it starts with an ordinal marker: a line *)
(* taken as a header that has no ordinal marker is the catalog title       *)
(* itself (in any case) and nothing else, and a line that starts with an   *)
(* ordinal marker and contains a catalog title is always taken as a header.*)
(***************************************************************************)
C5_ProseOnlyIfOrdinal ==
    InLoopAfterLine =>
        /\ (TookHeaderBranch /\ ~C4_StartsWithOrdinal(LastLine)) =>
              ToLowerCase(LastLine) = ToLowerCase(currentSection)
        /\ (C4_StartsWithOrdinal(LastLine)
            /\ \E k \in 1..Len(sectionHeaders) :
                  Includes(ToLowerCase(LastLine), ToLowerCase(sectionHeaders[k])))
              => TookHeaderBranch

\* A numbered sentence that mentions a title has just been taken as a header
C5_Witness ==
    /\ InLoopAfterLine
    /\ TookHeaderBranch
    /\ C4_StartsWithOrdinal(LastLine)
    /\ ToLowerCase(C5_WithoutOrdinal(LastLine)) # ToLowerCase(currentSection)

(***************************************************************************)
(* C6  The titles of the returned sections are, in text order, the titles  *)
(* of the header lines that have text under them: they are never sorted    *)
(* into catalog order, and a title whose header occurs twice yields two    *)
(* sections.                                                               *)
(***************************************************************************)
C6_TitlesInTextOrder ==
    pc = "done" =>
        LET em == EmittingLines
        IN  em # {} => Titles(sections) = TitlesOf(em)

\* Three sections, the first and the third with the same title, the second
\* with a title that comes earlier in the catalog
C6_Witness ==
    /\ pc = "done"
    /\ Len(sections) = 3
    /\ sections[1].title = sections[3].title
    /\ sections[1].title \in {sectionHeaders[k] : k \in 1..Len(sectionHeaders)}
    /\ sections[2].title \in {sectionHeaders[k] : k \in 1..Len(sectionHeaders)}
    /\ CatalogIndex(sections[2].title) < CatalogIndex(sections[1].title)

(***************************************************************************)
(* C7  As claimed: whenever at least one line is recognised as a catalog   *)
(* header, the result has no section titled 'Business Plan'.               *)
(***************************************************************************)
C7_NoFallbackAfterHeader ==
    (pc = "done" /\ HeaderLineIndexes # {}) =>
        \A n \in 1..Len(sections) : sections[n].title # FallbackTitle

(***************************************************************************)
(* C7 amended  The fallback section is produced exactly when no section    *)
(* was emitted: the result has a section titled 'Business Plan' if and     *)
(* only if no recognised header has non-blank text under it, and then that *)
(* section is the only one and holds the whole normalized text, header     *)
(* lines included.                                                         *)
(***************************************************************************)
C7_FallbackIffNothingEmitted ==
    pc = "done" =>
        LET em == EmittingLines
        IN  /\ (\E n \in 1..Len(sections) : sections[n].title = FallbackTitle)
                  <=> em = {}
            /\ em = {} =>
                  sections = <<Section(FallbackTitle, formatSectionContent(cleanContent))>>

\* A text with a recognised header and nothing under it: the fallback section
\* holds the header line
C7_Witness ==
    /\ pc = "done"
    /\ HeaderLineIndexes # {}
    /\ Len(sections) = 1
    /\ sections[1].title = FallbackTitle
    /\ \E k \in 1..Len(sectionHeaders) :
          Includes(ToLowerCase(sections[1].content), lowerHeaders[k])

(***************************************************************************)
(* C8  As claimed: normalization is idempotent; the whole-input clean-up,  *)
(* formatSectionContent and their composition each return their own output *)
(* unchanged.                                                              *)
(***************************************************************************)
Normalize(s) == formatSectionContent(CleanUp(s))

C8_NormalizationIdempotent ==
    pc = "done" =>
        /\ CleanUp(CleanUp(content)) = CleanUp(content)
        /\ formatSectionContent(formatSectionContent(content))
              = formatSectionContent(content)
        /\ Normalize(Normalize(content)) = Normalize(content)

(***************************************************************************)
(* C9  As claimed: exporting a plan and parsing the exported text yields   *)
(* sections whose titles are the plan's titles in the same order, and no   *)
(* line of the plan's section contents is lost.                            *)
(***************************************************************************)
NonBlankLines(s) == {l \in {Split(s)[k] : k \in 1..Len(Split(s))} : Trim(l) # <<>>}

C9_RoundTrip ==
    (pc = "done" /\ pass = 2) =>
        /\ Titles(sections) = Titles(businessPlan.sections)
        /\ \A n \in 1..Len(sections) :
              NonBlankLines(businessPlan.sections[n].content)
                 \subseteq NonBlankLines(sections[n].content)

(***************************************************************************)
(* C10  As claimed: the content of every returned section has no emphasis  *)
(* marker, no markdown header marker (a run of '#' before white space), no *)
(* run of three or more line breaks, no line that begins with white space, *)
(* and no leading or trailing white space.                                 *)
(***************************************************************************)
HasHeaderMarker(s) ==
    \E k \in 1..(Len(s) - 1) : s[k] = "#" /\ s[k + 1] \in WhiteSpace

C10_NoMarkup(s) ==
    /\ \A k \in 1..Len(s) : s[k] # "*"
    /\ \A k \in 1..(Len(s) - 2) : ~(s[k] = "\n" /\ s[k + 1] = "\n" /\ s[k + 2] = "\n")
    /\ \A k \in 1..Len(s) : LineStart(s, k) => s[k] \notin WhiteSpace
    /\ Trim(s) = s

C10_ContentNormalized ==
    pc = "done" =>
        \A n \in 1..Len(sections) :
            /\ C10_NoMarkup(sections[n].content)
            /\ ~HasHeaderMarker(sections[n].content)

(***************************************************************************)
(* C11  Header recognition is unaffected by markdown decoration: a line    *)
(* that is a catalog title T wrapped in emphasis markers or prefixed by    *)
(* markdown header markers, followed by body text, is recognised as the    *)
(* header T and yields a section titled T that holds the (normalized) body *)
(* text; what precedes the header is in no section.                        *)
(***************************************************************************)
C11_DecoratedHeaderRecognised ==
    pc = "done" =>
        \A lead \in 1..Len(Leads), kind \in DecorationKinds,
           k \in 1..Len(sectionHeaders), body \in 1..Len(DecoratedBodies) :
            \A n \in DecorationLevels(kind) :
                content = DecoratedText(lead, kind, n, k, body) =>
                    /\ sections = <<Section(sectionHeaders[k],
                                            Normalize(DecoratedBodies[body]))>>
                    /\ body = 1 => sections[1].content = Prose

\* '###### **Appendices**' after an introduction, parsed to the end
C11_Witness ==
    /\ pc = "done"
    /\ content = DecoratedText(2, "both", MaxHashes, Len(sectionHeaders), 1)
    /\ sections = <<Section(sectionHeaders[Len(sectionHeaders)], Prose)>>

(***************************************************************************)
(* C12  Numbered headers followed by prose parse to sections titled by the *)
(* bare catalog title with the trimmed prose as content: the text          *)
(* "1. Executive Summary\nWe sell widgets.\n\n2. Market Analysis\n         *)
(* Growing market.\n" parses to exactly [{Executive Summary, "We sell      *)
(* widgets."}, {Market Analysis, "Growing market."}], and so for every     *)
(* pair of catalog titles; no content holds an ordinal or a header line.   *)
(***************************************************************************)
C12_ScenarioText ==
    <<"1","."," ","E","x","e","c","u","t","i","v","e"," ","S","u","m","m","a","r","y","\n",
      "W","e"," ","s","e","l","l"," ","w","i","d","g","e","t","s",".","\n","\n",
      "2","."," ","M","a","r","k","e","t"," ","A","n","a","l","y","s","i","s","\n",
      "G","r","o","w","i","n","g"," ","m","a","r","k","e","t",".","\n">>

C12_NumberedScenario ==
    pc = "done" =>
        /\ \A k1, k2 \in 1..Len(sectionHeaders) :
              content = NumberedText(k1, k2) =>
                  sections = <<Section(sectionHeaders[k1], Widgets),
                               Section(sectionHeaders[k2], Growing)>>
        /\ content = C12_ScenarioText =>
              sections = <<Section(sectionHeaders[1], Widgets),
                           Section(sectionHeaders[3], Growing)>>
        /\ \A n \in 1..Len(sections) :
              /\ \A j \in 1..Len(sections[n].content) :
                    sections[n].content[j] \notin Digits
              /\ \A k \in 1..Len(sectionHeaders) :
                    ~Includes(sections[n].content, sectionHeaders[k])

\* The text of the scenario, parsed to the end
C12_Witness ==
    /\ pc = "done"
    /\ content = C12_ScenarioText
    /\ Len(sections) = 2
    /\ sections[2] = Section(sectionHeaders[3], Growing)

(***************************************************************************)
(* C20  A section is emitted exactly when a header has been recognised and *)
(* the text accumulated under it is non-empty after trimming: during the   *)
(* loop and at the return, the catalog-titled sections are as many as the  *)
(* closed headers that have a non-blank line under them, so a header       *)
(* followed, after blank lines at most, by another header or by the end of *)
(* the text yields no section; and every returned section with a catalog   *)
(* title has non-empty, trimmed content.                                   *)
(***************************************************************************)
C20_CatalogTitled(secs) ==
    {n \in 1..Len(secs) : secs[n].title # FallbackTitle}

C20_EmittedIffNonEmpty ==
    /\ pc = "loop" =>
          /\ Len(sections) = Cardinality(C20_CatalogTitled(sections))
          /\ Len(sections)
                = Cardinality({k \in Emitting(HeaderLineIndexes) :
                                 \E h \in HeaderLineIndexes : k < h /\ h < idx})
    /\ pc = "done" =>
          LET em == EmittingLines
          IN  /\ Cardinality(C20_CatalogTitled(sections)) = Cardinality(em)
              /\ \A n \in C20_CatalogTitled(sections) :
                    /\ sections[n].content # <<>>
                    /\ Trim(sections[n].content) = sections[n].content

\* A header followed by a blank line and a second header, a third header
\* with prose under it, and a fourth header at the end of the text
C20_Witness ==
    /\ pc = "done"
    /\ Cardinality(HeaderLineIndexes) >= 2
    /\ Cardinality(EmittingLines) = 1
    /\ \E k \in HeaderLineIndexes \ EmittingLines :
          k + 2 \in HeaderLineIndexes /\ Trim(lines[k + 1]) = <<>> /\ Len(lines[k+1]) = 0
    /\ Len(lines) \in HeaderLineIndexes
    /\ Len(sections) = 1
    /\ sections[1].title # FallbackTitle

(***************************************************************************)
(* C13  For every BusinessPlanInput, the prompt returned by                *)
(* createBusinessPlanPrompt contains the literal value of every non-empty  *)
(* field as a substring, introduced by the field's label ("Label: value"). *)
(***************************************************************************)
\* The user message of the request
UserPrompt == messages[Len(messages)].content

C13_PromptEmbedsFields ==
    messages # <<>> =>
        \A k \in 1..Len(Fields) :
            input[Fields[k]] # <<>> =>
                Includes(UserPrompt,
                         FieldLabel[Fields[k]] \o <<":", " ">> \o input[Fields[k]])

\* The prompt of an input whose eight fields are filled with texts that hold
\* markup, a line break and a label of the template
C13_Witness ==
    /\ messages # <<>>
    /\ input = Profile({Fields[k] : k \in 1..Len(Fields)}, 2)
    /\ UserPrompt = createBusinessPlanPrompt(input)

(***************************************************************************)
(* C14  As claimed: the string returned by createBusinessPlanPrompt itself *)
(* contains the boilerplate that names all ten document parts and that     *)
(* requests plain-text output without emphasis markers, and contains no    *)
(* emphasis marker of its own.                                             *)
(***************************************************************************)
C14_NamesTenParts(t) ==
    LET low == ToLowerCase(t)
    IN  \A k \in 1..Len(sectionHeaders) : Includes(low, lowerHeaders[k])

\* The words of the request for plain text
C14_PlainTextRequest ==
    <<"w","i","t","h","o","u","t"," ","a","n","y"," ","m","a","r","k","d",
      "o","w","n"," ","f","o","r","m","a","t","t","i","n","g",","," ","a",
      "s","t","e","r","i","s","k","s",","," ","o","r"," ","s","p","e","c",
      "i","a","l"," ","c","h","a","r","a","c","t","e","r","s">>

C14_NoEmphasisMarker(t) == \A j \in 1..Len(t) : t[j] # "*"

C14_PromptCarriesBoilerplate ==
    messages # <<>> =>
        /\ C14_NamesTenParts(createBusinessPlanPrompt(input))
        /\ Includes(createBusinessPlanPrompt(input), C14_PlainTextRequest)
        /\ C14_NoEmphasisMarker(createBusinessPlanPrompt(input))

(***************************************************************************)
(* C14 amended  In every request the boilerplate is carried by the system  *)
(* message that accompanies the prompt: the first message is systemPrompt, *)
(* which names all ten document parts, requests text without markdown      *)
(* formatting or asterisks and holds no asterisk; the second and last      *)
(* message is the string of createBusinessPlanPrompt, which does not hold  *)
(* the request for plain text and which opens its list of fields with the  *)
(* emphasised heading '**Business Details:**'.                             *)
(***************************************************************************)
C14_EmphasisedHeading ==
    <<"*","*","B","u","s","i","n","e","s","s"," ","D","e","t","a","i","l",
      "s",":","*","*">>

C14_SystemMessageCarriesBoilerplate ==
    messages # <<>> =>
        /\ Len(messages) = 2
        /\ messages[1].role = "system"
        /\ C14_NamesTenParts(messages[1].content)
        /\ Includes(messages[1].content, C14_PlainTextRequest)
        /\ C14_NoEmphasisMarker(messages[1].content)
        /\ messages[2] = Message("user", createBusinessPlanPrompt(input))
        /\ Includes(messages[2].content, C14_EmphasisedHeading)
        /\ ~Includes(messages[2].content, C14_PlainTextRequest)

\* The request of an input whose fields hold no asterisk and no catalog title
C14_Witness ==
    /\ messages # <<>>
    /\ input = Profile({Fields[k] : k \in 1..Len(Fields)}, 1)
    /\ ~C14_NoEmphasisMarker(UserPrompt)
    /\ ~C14_NamesTenParts(UserPrompt)

(***************************************************************************)
(* C15  As claimed: whenever handleModifyRequest succeeds, the plans       *)
(* collection afterwards holds the new document first and, as a separate   *)
(* entry, the document the modification was applied to with all its fields *)
(* unchanged, and it is one entry longer than before.                      *)
(***************************************************************************)
\* The step in which a modification succeeds
C15_ModifySucceeds ==
    /\ modCall # NoCall
    /\ modCall' = NoCall
    /\ error' = error
    /\ plans' # plans

C15_OriginalKeptNewFirst ==
    [][C15_ModifySucceeds =>
        /\ Len(plans') = Len(plans) + 1
        /\ plans'[1] = showPlanView'
        /\ plans'[1].title = modCall.plan.title \o ModifiedSuffix
        /\ \E k \in 2..Len(plans') : plans'[k] = modCall.plan]_vars

\* What holds of the same step: the entries the collection had when the
\* response arrived are kept as they were, behind the new document
C15_EntriesKeptNewFirst ==
    [][C15_ModifySucceeds =>
        /\ plans' = <<showPlanView'>> \o plans
        /\ showPlanView'.title = modCall.plan.title \o ModifiedSuffix
        /\ showPlanView'.industry = modCall.plan.industry]_vars

\* A modified plan alone in the collection: its original was deleted while
\* the request was outstanding
C15_ModifiedWithoutOriginal ==
    /\ Len(plans) = 1
    /\ Modifications(plans[1].title) = 1

(***************************************************************************)
(* C16  parseBusinessPlanSections holds no state between calls: whatever   *)
(* generations, modifications and setModel calls came before it, what it   *)
(* returns is the same function of the text it is given, so two calls on   *)
(* the same text return equal section sequences.                           *)
(***************************************************************************)
\* The sections of each text that is parsed, computed from the text alone
C16_SectionsFromText ==
    [text \in ParsedContents |->
        WithFallback(ParseLines(Split(CleanUp(text)), 1, <<>>, <<>>, <<>>),
                     CleanUp(text))]

C17_RetriesOn429 ==
    [][\A body \in ErrorBodies, now \in clock..MaxClock :
        /\ GenerateSettlesWith(Response(429, body), now) => genCall' # NoCall
        /\ ModifySettlesWith(Response(429, body), now) => modCall' # NoCall]_vars

(***************************************************************************)
(* C17 amended  Nothing retries: when the endpoint answers a generation or *)
(* a modification with status 429, the operation ends with that answer.    *)
(* No request is outstanding for it afterwards, its busy flag is cleared,  *)
(* the error banner holds the fixed rate-limit message, which asks the     *)
(* user to try again, and the collection of plans is as it was.            *)
(***************************************************************************)
C17_NoRetryOn429 ==
    [][\A body \in ErrorBodies, now \in clock..MaxClock :
        /\ GenerateSettlesWith(Response(429, body), now) =>
                /\ genCall' = NoCall
                /\ ~isGenerating'
                /\ modCall' = modCall
                /\ error' = RateLimitMessage
                /\ plans' = plans
        /\ ModifySettlesWith(Response(429, body), now) =>
                /\ modCall' = NoCall
                /\ ~isModifying'
                /\ genCall' = genCall
                /\ error' = RateLimitMessage
                /\ plans' = plans]_vars

\* A modification was answered with 429: the panel is still open with the
\* request the user typed, and nothing is outstanding
C17_Witness ==
    /\ error = RateLimitMessage
    /\ InFlight = 0
    /\ ~isModifying
    /\ Len(plans) = 1
    /\ showPlanView = plans[1]
    /\ showModifyMode
    /\ modificationRequest # <<>>

(***************************************************************************)
(* C18  As claimed: every non-OK answer to a generation or a modification  *)
(* ends the call with an error and without a document or a call of the     *)
(* parser, and the error banner holds the message of the answer: the fixed *)
(* message of status 401, 402 or 429, and for any other status the error   *)
(* message of the server if the answer carries one, else the message that  *)
(* carries the status code.                                                *)
(***************************************************************************)
C18_NonOkStatuses == {status \in Statuses : ~ResponseOk(status)}

\* The message the claim gives an answer
C18_ForwardedMessage(status, body) ==
    IF status = 401 THEN InvalidKeyMessage
    ELSE IF status = 402 THEN InsufficientCreditsMessage
    ELSE IF status = 429 THEN RateLimitMessage
    ELSE IF body.parses /\ body.message # <<>> THEN body.message
    ELSE RequestFailedPrefix \o ToDecimal(status)

C18_NonOkForwardedToBanner ==
    [][\A status \in C18_NonOkStatuses, body \in ErrorBodies, now \in clock..MaxClock :
        /\ GenerateSettlesWith(Response(status, body), now) =>
                /\ error' = C18_ForwardedMessage(status, body)
                /\ plans' = plans
                /\ parseLog' = parseLog
                /\ genCall' = NoCall
        /\ ModifySettlesWith(Response(status, body), now) =>
                /\ error' = C18_ForwardedMessage(status, body)
                /\ plans' = plans
                /\ parseLog' = parseLog
                /\ modCall' = NoCall]_vars

\* What holds of every non-OK answer: the call ends with an error, without a
\* document and without a call of the parser, and the banner holds the
\* message that was thrown
C18_NonOkRaisesError ==
    [][\A status \in C18_NonOkStatuses, body \in ErrorBodies, now \in clock..MaxClock :
        /\ GenerateSettlesWith(Response(status, body), now) =>
                /\ error' = FailureMessage(status, body)
                /\ plans' = plans
                /\ parseLog' = parseLog
                /\ genCall' = NoCall
        /\ ModifySettlesWith(Response(status, body), now) =>
                /\ error' = FailureMessage(status, body)
                /\ plans' = plans
                /\ parseLog' = parseLog
                /\ modCall' = NoCall]_vars

(***************************************************************************)
(* C19  Logout always clears the local authentication state: in the step   *)
(* in which logout completes, user and session become null and isLoading   *)
(* becomes false, whether signOut succeeded, returned an error or threw.   *)
(***************************************************************************)
C19_LogoutCompletes ==
    /\ logoutCall.pc = "resume"
    /\ logoutCall'.pc = "idle"

C19_LogoutClearsLocalState ==
    [][C19_LogoutCompletes =>
        /\ logoutCall.result.kind \in Kinds
        /\ user' = NoUser
        /\ session' = NoSession
        /\ ~isLoading']_vars

\* A logout whose signOut threw has completed: the client still holds its
\* session, the provider holds none
C19_Witness ==
    /\ logoutCall = Returned(Settled("throw", NetworkErrorMessage))
    /\ stored # NoSession
    /\ events = <<>>
    /\ user = NoUser
    /\ session = NoSession
    /\ ~isLoading

(***************************************************************************)
(* C21: the lines under a header                                           *)
(***************************************************************************)
\* The lines of the normalized text under the header line k: those up to the
\* next header line, or up to the end of the text
C21_LinesUnder(k) ==
    LET later == {h \in HeaderLineIndexes : h > k}
        last  == IF later = {} THEN Len(lines)
                 ELSE (CHOOSE h \in later : \A g \in later : h <= g) - 1
    IN  SubSeq(lines, k + 1, last)

\* The n-th header line, in text order, that opens a returned section
C21_NthEmitting(n) ==
    CHOOSE k \in EmittingLines : Cardinality({j \in EmittingLines : j < k}) = n - 1

\* A line without its leading white space
C21_TrimStart(l) ==
    LET rest == {j \in 1..Len(l) : l[j] \notin WhiteSpace}
    IN  IF rest = {} THEN <<>>
        ELSE SubSeq(l, CHOOSE j \in rest : \A m \in rest : j <= m, Len(l))

\* The non-blank lines among ls, in their order, each without its indentation
C21_NonBlank(ls) ==
    SelectSeq([k \in 1..Len(ls) |-> C21_TrimStart(ls[k])], LAMBDA l : l # <<>>)

\* C21: every non-blank line that follows a recognised header and is not a
\* header itself is in the content of the section opened by the nearest header
\* before it, in the order of the text, and in no other section: the n-th
\* returned section has the title of the n-th header line with a non-blank
\* line under it, and its content is exactly the non-blank lines under that
\* header line, in their order, each without its indentation, joined by line
\* breaks, without white space at the end.
C21_LinesInOwnSection ==
    (pc = "done" /\ EmittingLines # {}) =>
        /\ Len(sections) = Cardinality(EmittingLines)
        /\ \A n \in 1..Len(sections) :
              /\ sections[n].title = MatchedHeader(lines[C21_NthEmitting(n)])
              /\ sections[n].content
                    = Trim(Join(C21_NonBlank(C21_LinesUnder(C21_NthEmitting(n)))))

\* A header with two non-blank lines under it, one of them naming another
\* catalog title in prose, has been parsed into one section of two lines
C21_Witness ==
    /\ pc = "done"
    /\ Len(lines) = 3
    /\ HeaderLineIndexes = {1}
    /\ Trim(lines[2]) # <<>> /\ Trim(lines[3]) # <<>> /\ lines[2] # lines[3]
    /\ Len(sections) = 1
    /\ Len(Split(sections[1].content)) = 2

(***************************************************************************)
(* C29: the text before the first header                                   *)
(***************************************************************************)
\* The first header line of the normalized text
C29_FirstHeader == CHOOSE h \in HeaderLineIndexes : \A g \in HeaderLineIndexes : h <= g

\* The lines before the first header line
C29_Preamble == SubSeq(lines, 1, C29_FirstHeader - 1)

\* The sections the loop and the last push give for the lines ls
C29_SectionsOfLines(ls) == ParseLines(ls, 1, <<>>, <<>>, <<>>)

\* C29: when a catalog-titled section is returned, the text before the first
\* recognised header is in no returned section: the sections returned are
\* those of the text from the first header line on, and there is one per
\* header line with a non-blank line under it. The text before the first
\* header is kept only when no section was emitted: then the only section is
\* the fallback section, and each non-blank line before the first header is
\* part of its content.
C29_PreambleOnlyInFallback ==
    (pc = "done" /\ HeaderLineIndexes # {}) =>
        IF C20_CatalogTitled(sections) # {}
        THEN /\ sections = C29_SectionsOfLines(
                               SubSeq(lines, C29_FirstHeader, Len(lines)))
             /\ Len(sections) = Cardinality(EmittingLines)
        ELSE /\ EmittingLines = {}
             /\ Len(sections) = 1
             /\ sections[1].title = FallbackTitle
             /\ \A k \in 1..Len(C29_Preamble) :
                   Includes(sections[1].content, Trim(C29_Preamble[k]))

\* A text with a non-blank line before its first header and a non-blank line
\* under that header has been parsed
C29_Witness ==
    /\ pc = "done"
    /\ HeaderLineIndexes # {}
    /\ C29_FirstHeader > 1
    /\ Trim(lines[1]) # <<>>
    /\ C20_CatalogTitled(sections) # {}
    /\ ~ Includes(sections[1].content, Trim(lines[1]))

\* A text with a non-blank line before its only header and nothing under the
\* header has been parsed into the fallback section
C29_FallbackWitness ==
    /\ pc = "done"
    /\ HeaderLineIndexes # {}
    /\ C29_FirstHeader > 1
    /\ Trim(lines[1]) # <<>>
    /\ C20_CatalogTitled(sections) = {}

(***************************************************************************)
(* C22: a failed generation                                                *)
(***************************************************************************)
\* The answers generateBusinessPlan raises on: fetch rejects, the status is
\* not OK, or the body of an OK response is not JSON, is null or has no
\* choices
C22_Raises(response) ==
    \/ response.rejected
    \/ ~ResponseOk(response.status)
    \/ ~response.body.parses
    \/ response.body.isNull
    \/ ~response.body.hasChoices

\* What a failed generation leaves alone
C22_OnlyBannerAndFlag ==
    /\ ~isGenerating'
    /\ error' # Null
    /\ UNCHANGED <<plans, formData, showGenerator, showPlanView, showModifyMode,
                   modificationRequest, isModifying, showEditMode, editedPlan>>

\* C22: a failed generation changes nothing but the error banner and the busy
\* flag. When generateBusinessPlan raises, because the API key is missing, the
\* response is not OK or the body of the response is malformed, the plans, the
\* form data and the visibility of the generator form are unchanged, error
\* holds the message of the failure and isGenerating is false.
C22_FailedGenerationKeepsState ==
    [][/\ \A response \in Responses(GeneratedTexts), now \in clock..MaxClock :
            (GenerateSettlesWith(response, now) /\ C22_Raises(response)) =>
                /\ C22_OnlyBannerAndFlag
                /\ error' = Outcome(response, DefaultGeneratedContent).message
       /\ (handleGeneratePlan /\ FormValid(formData) /\ ~KeyConfigured(apiKey)) =>
                /\ C22_OnlyBannerAndFlag
                /\ error' = KeyNotConfiguredMessage
      ]_vars

\* A generation with a valid form has failed on a response without choices:
\* the form is still shown with its data, the banner holds the message
C22_Witness ==
    /\ requests = 1
    /\ genCall = NoCall
    /\ ~isGenerating
    /\ error = NoChoicesMessage
    /\ showGenerator
    /\ FormValid(formData)
    /\ plans = <<>>

\* A generation with a valid form has failed because no API key is configured
C22_KeyWitness ==
    /\ requests = 0
    /\ ~isGenerating
    /\ error = KeyNotConfiguredMessage
    /\ showGenerator
    /\ FormValid(formData)

(***************************************************************************)
(* C23: the busy flags                                                     *)
(***************************************************************************)
\* The page with requests that settle: a request that was sent is answered,
\* refused or rejected, and the continuation of the handler then runs
NextSettling ==
    \/ handleInputChange
    \/ handleGeneratePlan
    \/ GenerateSettles
    \/ handleModifyRequest
    \/ ModifySettles
    \/ OpenGenerator
    \/ ViewPlan
    \/ BackToPlans
    \/ ToggleModifyMode
    \/ ChangeModificationRequest

SpecPageSettling ==
    /\ InitPage
    /\ [][NextSettling]_vars
    /\ WF_vars(GenerateSettles)
    /\ WF_vars(ModifySettles)

\* C23: the busy flags are always released. isGenerating (isModifying) is
\* true only while the call of handleGeneratePlan (handleModifyRequest) is
\* outstanding, and once set it becomes false again when the call has
\* settled, whether it succeeded or failed.
C23_BusyFlagsReleased ==
    /\ [](isGenerating <=> genCall # NoCall)
    /\ [](isModifying <=> modCall # NoCall)
    /\ (isGenerating ~> ~isGenerating)
    /\ (isModifying ~> ~isModifying)

\* The generation flag has been released after a generation that succeeded,
\* and the modification flag is set while a modification is outstanding
C23_Witness ==
    /\ requests = 2
    /\ plans # <<>>
    /\ ~isGenerating
    /\ genCall = NoCall
    /\ isModifying
    /\ modCall # NoCall

(***************************************************************************)
(* C24: requests in flight                                                 *)
(***************************************************************************)
\* C24: at most one generation request and at most one modification request
\* are in flight at any time, whatever the user does while a request is
\* outstanding: a step sends a request only as handleGeneratePlan with no
\* generation outstanding or as handleModifyRequest with no modification
\* outstanding, it sends one request, and the other call is left as it is; no
\* other step sends a request or replaces an outstanding call.
C24_OneRequestEach ==
    [][/\ (requests' # requests) =>
            /\ requests' = requests + 1
            /\ \/ /\ handleGeneratePlan
                  /\ genCall = NoCall /\ genCall' # NoCall /\ modCall' = modCall
               \/ /\ handleModifyRequest
                  /\ modCall = NoCall /\ modCall' # NoCall /\ genCall' = genCall
       /\ (requests' = requests) =>
            /\ genCall' \in {genCall, NoCall}
            /\ modCall' \in {modCall, NoCall}
      ]_vars

\* A modification is outstanding while the user has gone back to the list,
\* opened the generator form and filled it in
C24_Witness ==
    /\ modCall # NoCall
    /\ isModifying
    /\ Screen = "generator"
    /\ FormValid(formData)

(***************************************************************************)
(* C25: the plan the viewer shows                                          *)
(***************************************************************************)
\* The plans of the collection
C25_PlanSet == {plans[k] : k \in 1..Len(plans)}

\* C25: whenever showPlanView is not null, the plan it holds is an element of
\* the plans collection, after every sequence of generations, modifications,
\* edits, saves, cancels, backs and deletions, also when a request that was
\* started before the user navigated away completes.
C25_ViewedPlanInPlans == showPlanView # NoPlan => showPlanView \in C25_PlanSet

\* An edited plan has been saved, with a changed title and a changed section,
\* and is shown by the viewer next to another plan of the collection
C25_Witness ==
    /\ showPlanView # NoPlan
    /\ ~showEditMode
    /\ showPlanView.title \in EditedTitles
    /\ showPlanView.sections[1].content \in EditedContents
    /\ Len(plans) = 2
    /\ plans[1] # plans[2]

\* A modification that completed after the user had left the viewer and
\* deleted the plan put its result in the viewer
C25_LateWitness ==
    /\ Len(plans) = 1
    /\ showPlanView = plans[1]
    /\ Modifications(showPlanView.title) = 1

(***************************************************************************)
(* C26: the identifiers of the plans                                       *)
(***************************************************************************)
\* The entries of plans with the given id
C26_WithId(id) == {k \in 1..Len(plans) : plans[k].id = id}

\* C26: the identifiers of the plans of the collection are pairwise distinct
\* after any sequence of generations and modifications.
C26_IdsDistinct ==
    \A i, j \in 1..Len(plans) : plans[i].id = plans[j].id => i = j

\* C26, what the claim draws from it: deletePlan removes exactly one entry and
\* handleSaveEdit replaces exactly one entry.
C26_OneEntryPerId ==
    [][/\ deletePlan => Len(plans') = Len(plans) - 1
       /\ handleSaveEdit => Cardinality(C26_WithId(editedPlan.id)) = 1
      ]_vars

\* What does hold: plans built at different readings of the clock differ in
\* their identifiers, the identifier of a plan being the reading of Date.now()
\* at which it was built
C26_IdIsCreationTime ==
    \A i \in 1..Len(plans) : plans[i].id = plans[i].createdAt /\ plans[i].id <= clock

(***************************************************************************)
(* C27: saving an edit                                                     *)
(***************************************************************************)
\* The entries of plans that a step changes
C27_Changed == {k \in 1..Len(plans) : k > Len(plans') \/ plans'[k] # plans[k]}

\* C27: saving an edit replaces only the edited plan. handleSaveEdit puts the
\* edited copy in the place of the entry with its id and leaves every other
\* entry, the length of the collection and its order unchanged: at most one
\* entry changes, and it becomes the edited copy. The page leaves edit mode,
\* the edited copy is cleared, and the viewer shows the saved plan.
C27_SaveReplacesOnlyEdited ==
    [][handleSaveEdit =>
            /\ Len(plans') = Len(plans)
            /\ Cardinality(C27_Changed) <= 1
            /\ \A k \in C27_Changed :
                  plans[k].id = editedPlan.id /\ plans'[k] = editedPlan
            /\ ~showEditMode'
            /\ editedPlan' = NoPlan
            /\ showPlanView' = editedPlan
      ]_vars

\* What does hold: every entry with the id of the edited copy becomes the
\* edited copy, every entry with another id stays as it is and where it is
C27_SaveReplacesById ==
    [][handleSaveEdit =>
            /\ Len(plans') = Len(plans)
            /\ \A k \in 1..Len(plans) :
                  plans'[k] = IF plans[k].id = editedPlan.id THEN editedPlan
                              ELSE plans[k]
            /\ ~showEditMode'
            /\ editedPlan' = NoPlan
            /\ showPlanView' = editedPlan
      ]_vars

(***************************************************************************)
(* C28: edits until they are saved                                         *)
(***************************************************************************)
\* C28: edits are invisible until saved. Between handleEditPlan and
\* handleSaveEdit, changing the title or the content of a section of the
\* edited copy leaves the plans collection, and so every plan in it,
\* unchanged, as does handleEditPlan itself; handleCancelEdit discards the
\* copy and closes the edit screen without changing the collection.
C28_EditsInvisibleUntilSaved ==
    [][/\ (handleEditPlan \/ ChangeEditedTitle \/ updateEditedSection) =>
            /\ plans' = plans
            /\ showEditMode' /\ editedPlan' # NoPlan
       /\ (ChangeEditedTitle \/ updateEditedSection) =>
            /\ showPlanView' = showPlanView
            /\ editedPlan'.id = editedPlan.id
       /\ handleCancelEdit =>
            /\ plans' = plans
            /\ ~showEditMode' /\ editedPlan' = NoPlan
            /\ showPlanView' = showPlanView
      ]_vars

\* The title and a section of the edited copy have been changed and the edit
\* screen is still open, while the plan the copy was made from is unchanged
C28_Witness ==
    /\ Screen = "edit"
    /\ editedPlan.title \in EditedTitles
    /\ \E n \in 1..Len(editedPlan.sections) :
          editedPlan.sections[n].content \in EditedContents
    /\ \E k \in 1..Len(plans) :
          /\ plans[k].id = editedPlan.id
          /\ plans[k].title \notin EditedTitles
          /\ \A n \in 1..Len(plans[k].sections) :
                plans[k].sections[n].content \notin EditedContents

====
